---- MODULE Spec2Model ----
(***************************************************************************)
(* GPIO pin manager (features/gpio/manager.py), its hardware adapter       *)
(* (features/gpio/hardware.py) and the in-memory driver                    *)
(* (features/gpio/mock_gpio.py).                                           *)
(*                                                                         *)
(* Every manager call is one atomic action.  `last` is the caller's view   *)
(* of the call that has just returned: what it was, how it ended and which *)
(* driver primitives and callbacks it reached.  The caller then goes back  *)
(* to idle (Return) before the next call is made.                          *)
(***************************************************************************)
EXTENDS Integers, Sequences, FiniteSets, TLC

VARIABLES pinModes, outputPinStates, pinCallbacks, pwmPins, validPins, gpioPins,
          initialized, hw_initialized, last,
          active_connections, gpio_lock, sockets, threads, delivered, iter, is_running

vars == <<pinModes, outputPinStates, pinCallbacks, pwmPins, validPins, gpioPins,
          initialized, hw_initialized, last,
          active_connections, gpio_lock, sockets, threads, delivered, iter, is_running>>

(* The state of the web routes (features/gpio/routes.py) and of the threads
   that call the manager concurrently; the manager's own methods never touch
   it. *)
layerVars == <<active_connections, gpio_lock, sockets, threads, delivered, iter, is_running>>

-----------------------------------------------------------------------------
(* Program constants: features/gpio/constants.py *)
HIGH == 1
LOW == 0
UNDEFINED == -1
(* IN and OUT of constants.py; IN is a reserved word of the language. *)
IN_MODE == 1
OUT_MODE == 0

(* Pull-up/down settings of constants.py. *)
PUD_OFF == 20
PUD_DOWN == 21
PUD_UP == 22

(* mock_gpio.SERIAL: a pin function that is neither IN nor OUT. *)
SERIAL == 40

(* Python's None where it is stored next to integers (modes, states). *)
None == -2

(* mock_gpio._rpi3B_pins, in the order of the source. *)
rpi3B_pins == <<2, 3, 4, 7, 8, 9, 10, 11, 14, 15, 17, 18, 22, 23, 24, 25, 27>>

(* Bound: how many of the driver's pins exist in the model. *)
NumPins == 2

MockPins == {rpi3B_pins[i] : i \in 1..NumPins}

(* A pin number no driver has; the tests use 999. *)
InvalidPin == 999

(* Bound: how many of the driver's pins the callers of Spec operate on. *)
NumCallerPins == 1

(* The pin arguments of the calls in Spec. *)
CallerPins == {rpi3B_pins[i] : i \in 1..NumCallerPins} \cup {InvalidPin}

(* PIN_CONFIG of config/settings.py: the pins of BirdControl. *)
MOTOR_1_PIN == 18
MOTOR_2_PIN == 23
OPTICAL_GATE_1_PIN == 24
OPTICAL_GATE_2_PIN == 25

BirdPins == {MOTOR_1_PIN, MOTOR_2_PIN, OPTICAL_GATE_1_PIN, OPTICAL_GATE_2_PIN}

(* MOTOR_CONFIG of config/settings.py. *)
INITIAL_FREQUENCY == 2
INITIAL_DUTY_CYCLE == 50

PinUniverse == MockPins \cup CallerPins \cup {12, 13, 18, 19} \cup BirdPins

(* range(100) of GPIOHardware.get_valid_pins *)
DiscoveryRange == 0..99

(* Inputs of the calls: the legal values and one illegal value each. *)
ModeInputs == {IN_MODE, OUT_MODE, 2}
StateInputs == {HIGH, LOW, 2}

(* Callables handed to the manager.  "None" is the absent callback. *)
NoCallback == "None"
OnChangeFns == {"cb1", "cb2"}
OnClearFns == {"clr2"}
CallbackFns == OnChangeFns \cup OnClearFns

(* What the callables do when invoked: cb1 returns; cb2 and clr2 raise. *)
RaisingFns == {"cb2", "clr2"}

(* CallbackInfo(on_change, on_clear) values the callers create. *)
CallbackInfo(on_change, on_clear) == [on_change |-> on_change, on_clear |-> on_clear]
Registrations == {CallbackInfo("cb1", NoCallback), CallbackInfo("cb2", "clr2")}

(* The callback configure_gpio registers: lambda p, state:
   pin_state_changed(p, state), with no on_clear. *)
RelayReg == CallbackInfo("relay", NoCallback)

(* The registration OpticalGates makes on both gates: BirdControl's
   callback, no on_clear. *)
GateReg == CallbackInfo("gate", NoCallback)

(* Streaming connections that can be open at once, and the threads that
   call set_pin_state concurrently. *)
NumSockets == 2
WsIds == 1..NumSockets
ThreadIds == {"t1", "t2"}

(* Driver primitives that may raise RuntimeError in a call (real driver). *)
FaultKinds == {"setup", "input", "output"}

-----------------------------------------------------------------------------
(* Helpers for ordered iteration. *)
Min(S) == CHOOSE x \in S : \A y \in S : x <= y

RECURSIVE SortedSeq(_)
SortedSeq(S) == IF S = {} THEN <<>> ELSE <<Min(S)>> \o SortedSeq(S \ {Min(S)})

SeqToSet(s) == {s[i] : i \in 1..Len(s)}

(* Some iteration order of a Python set. *)
RECURSIVE SetOrder(_)
SetOrder(S) == IF S = {} THEN <<>>
               ELSE LET x == CHOOSE y \in S : TRUE IN <<x>> \o SetOrder(S \ {x})

(* One callback invocation fn(pin, state). *)
Call(fn, pin, state) == [fn |-> fn, pin |-> pin, state |-> state]

-----------------------------------------------------------------------------
(* mock_gpio *)

(* _MockPin(number, mode, pull_up_down, initial): event_callbacks starts empty. *)
MockPin(mode, initial) == [mode |-> mode, value |-> initial, events |-> 0]

(* setup(channel, direction, pull_up_down, initial): replaces the pin object. *)
gpio_setup(gp, pin, direction, initial) ==
    [p \in (DOMAIN gp) \cup {pin} |->
        IF p = pin THEN MockPin(direction, IF initial # -1 THEN initial ELSE LOW)
        ELSE gp[p]]

(* add_event_detect(channel, edge, callback, bouncetime) *)
gpio_add_event_detect(gp, pin) ==
    [gp EXCEPT ![pin].events = @ + 1]

(* input(channel): the value read, or the error raised. *)
gpio_input(gp, pin, faults) ==
    IF "input" \in faults THEN [err |-> "RuntimeError", value |-> None]
    ELSE IF pin \notin DOMAIN gp THEN [err |-> "RuntimeError", value |-> None]
    ELSE IF gp[pin].mode = IN_MODE
         THEN [err |-> "none", value |-> IF gp[pin].value # 0 THEN 1 ELSE 0]
         ELSE [err |-> "RuntimeError", value |-> None]

(* output(channel, value) for one channel. *)
gpio_output(gp, pin, val, faults) ==
    IF "output" \in faults THEN [err |-> "RuntimeError", gp |-> gp]
    ELSE IF pin \notin DOMAIN gp THEN [err |-> "RuntimeError", gp |-> gp]
    ELSE IF gp[pin].mode # OUT_MODE THEN [err |-> "RuntimeError", gp |-> gp]
    ELSE [err |-> "none", gp |-> [gp EXCEPT ![pin].value = IF val THEN 1 ELSE 0]]

(* gpio_function(channel) succeeds exactly for the pins in _pins. *)
gpio_function_pins(gp) == {p \in DOMAIN gp \cap DiscoveryRange : gp[p].mode \in {IN_MODE, OUT_MODE}}

-----------------------------------------------------------------------------
(* GPIOHardware *)

(* Variant: the discovered list is returned but not stored. *)
StoreValidPinsNever(vp, found) == vp

(* get_valid_pins: self._valid_pins = sorted(valid_pins) *)
StoreValidPins(vp, found) == [cached |-> TRUE, pins |-> found]

(* Variant: an empty discovery is accepted like any other. *)
NoPinsFoundIgnored(found) == FALSE

(* get_valid_pins: if not valid_pins: raise RuntimeError("No valid pins found") *)
NoPinsFound(found) == found = <<>>

(* get_valid_pins(): cached list, else discovery; an empty discovery raises.
   scans counts the calls of the driver's gpio_function. *)
HW_get_valid_pins(vp, gp) ==
    IF vp.cached THEN [err |-> "none", pins |-> vp.pins, vp |-> vp, scans |-> 0]
    ELSE LET found == SortedSeq(gpio_function_pins(gp)) IN
         IF NoPinsFound(found)
         THEN [err |-> "RuntimeError", pins |-> <<>>, vp |-> vp,
               scans |-> Cardinality(DiscoveryRange)]
         ELSE [err |-> "none", pins |-> found, vp |-> StoreValidPins(vp, found),
               scans |-> Cardinality(DiscoveryRange)]

(* return HIGH if state else LOW, of the adapter's get_pin_state. *)
LevelToStateInverted(value) == IF value # 0 THEN LOW ELSE HIGH

LevelToState(value) == IF value # 0 THEN HIGH ELSE LOW

(* get_pin_state(pin) of the adapter. *)
HW_get_pin_state(gp, vp, pin, faults) ==
    LET v == HW_get_valid_pins(vp, gp) IN
    IF v.err # "none" THEN [err |-> v.err, state |-> None, vp |-> v.vp, reads |-> 0]
    ELSE IF pin \notin SeqToSet(v.pins)
         THEN [err |-> "ValueError", state |-> None, vp |-> v.vp, reads |-> 0]
    ELSE LET r == gpio_input(gp, pin, faults) IN
         IF r.err # "none" THEN [err |-> r.err, state |-> None, vp |-> v.vp, reads |-> 1]
         ELSE [err |-> "none", state |-> LevelToState(r.value),
               vp |-> v.vp, reads |-> 1]

(* set_output_state(pin, state) *)
HW_set_output_state(gp, vp, pin, state, faults) ==
    LET v == HW_get_valid_pins(vp, gp) IN
    IF v.err # "none" THEN [err |-> v.err, gp |-> gp, vp |-> v.vp, writes |-> 0]
    ELSE IF pin \notin SeqToSet(v.pins)
         THEN [err |-> "ValueError", gp |-> gp, vp |-> v.vp, writes |-> 0]
    ELSE IF state \notin {HIGH, LOW}
         THEN [err |-> "ValueError", gp |-> gp, vp |-> v.vp, writes |-> 0]
    ELSE LET w == gpio_output(gp, pin, state # 0, faults) IN
         [err |-> w.err, gp |-> w.gp, vp |-> v.vp,
          writes |-> IF w.err = "none" THEN 1 ELSE 0]

(* Variant: only the missing callback is rejected. *)
PairingMismatchOneWay(edge_detection, callback) ==
    edge_detection /\ callback = NoCallback

(* setup_input_pin: (edge_detection and not callback) or
   (not edge_detection and callback) *)
PairingMismatch(edge_detection, callback) ==
    \/ edge_detection /\ callback = NoCallback
    \/ ~edge_detection /\ callback # NoCallback

(* setup_input_pin(pin, pull_up_down, edge_detection, bouncetime, callback):
   the pull-up/down check, gpio.setup, then the pairing check, then
   add_event_detect.  events counts the add_event_detect calls. *)
HW_setup_input_pin(gp, pin, pull_up_down, edge_detection, callback, faults) ==
    IF pull_up_down \notin {PUD_OFF, PUD_UP, PUD_DOWN}
    THEN [err |-> "ValueError", gp |-> gp, setups |-> 0, events |-> 0]
    ELSE IF "setup" \in faults
    THEN [err |-> "RuntimeError", gp |-> gp, setups |-> 0, events |-> 0]
    ELSE LET gp1 == gpio_setup(gp, pin, IN_MODE, -1) IN
         IF PairingMismatch(edge_detection, callback)
         THEN [err |-> "ValueError", gp |-> gp1, setups |-> 1, events |-> 0]
         ELSE IF edge_detection
         THEN [err |-> "none", gp |-> gpio_add_event_detect(gp1, pin),
               setups |-> 1, events |-> 1]
         ELSE [err |-> "none", gp |-> gp1, setups |-> 1, events |-> 0]

(* setup_output_pin(pin, initial_state) *)
HW_setup_output_pin(gp, pin, initial_state, faults) ==
    IF initial_state # UNDEFINED /\ initial_state \notin {HIGH, LOW}
    THEN [err |-> "ValueError", gp |-> gp, setups |-> 0]
    ELSE IF "setup" \in faults THEN [err |-> "RuntimeError", gp |-> gp, setups |-> 0]
    ELSE [err |-> "none", gp |-> gpio_setup(gp, pin, OUT_MODE, initial_state), setups |-> 1]

(* cleanup(): the adapter method takes no pin argument. *)
HWCleanupTakesPin == FALSE

-----------------------------------------------------------------------------
(* GPIOManager *)

(* get_pin_state(pin) as a function of the manager and adapter state. *)
GetPinState(modes, cache, vp, gp, pin, faults) ==
    LET v == HW_get_valid_pins(vp, gp) IN
    IF v.err # "none"
    THEN [err |-> v.err, ret |-> None, vp |-> v.vp, reads |-> 0]
    ELSE IF pin \notin SeqToSet(v.pins)
         THEN [err |-> "none", ret |-> UNDEFINED, vp |-> v.vp, reads |-> 0]
    ELSE IF modes[pin] = None
         THEN [err |-> "none", ret |-> UNDEFINED, vp |-> v.vp, reads |-> 0]
    ELSE IF modes[pin] = OUT_MODE
         THEN [err |-> "none",
               ret |-> IF cache[pin] = None THEN UNDEFINED ELSE cache[pin],
               vp |-> v.vp, reads |-> 0]
    ELSE IF modes[pin] = IN_MODE
         THEN LET r == HW_get_pin_state(gp, v.vp, pin, faults) IN
              [err |-> "none",
               ret |-> IF r.err = "none" THEN r.state ELSE UNDEFINED,
               vp |-> v.vp, reads |-> r.reads]
    ELSE [err |-> "none", ret |-> UNDEFINED, vp |-> v.vp, reads |-> 0]

(* The record of a finished call. *)
NoCall == [op |-> "init", pin |-> None, arg |-> None, cb |-> NoCallback,
           err |-> "none", msg |-> "", hwErr |-> "none", ret |-> None, calls |-> <<>>,
           raised |-> {}, faults |-> {}, setups |-> 0, reads |-> 0, writes |-> 0,
           seen |-> <<>>, pins |-> <<>>, scans |-> 0, stopped |-> {},
           edge |-> FALSE, events |-> 0, pwms |-> 0, warn |-> {}, listing |-> <<>>,
           steps |-> <<>>, setmodes |-> 0]

(* No loop over a pin's callback set is running.  A running loop holds the
   set object it iterates (`set`, its present content), the set's size at
   the loop's start (`used`), the callbacks it has invoked and those
   registered ever since it started; `detached` says that the registry no
   longer holds the set object. *)
NoIter == [active |-> FALSE, pin |-> None, state |-> None, used |-> 0, set |-> {},
           detached |-> FALSE, visited |-> {}, stable |-> {}, err |-> "none"]

(* routes.py at import: no connection, the lock free; no socket has
   connected and no thread is inside set_pin_state.  BirdControl's
   is_running starts False. *)
InitLayer ==
    /\ active_connections = <<>>
    /\ gpio_lock = "free"
    /\ sockets = [w \in WsIds |-> [st |-> "new", first |-> "none", alive |-> TRUE,
                                   closed |-> FALSE, out |-> "none"]]
    /\ threads = [t \in ThreadIds |-> [pc |-> "idle", pin |-> None, state |-> None,
                                        err |-> "none"]]
    /\ delivered = [fn \in OnChangeFns |-> None]
    /\ iter = NoIter
    /\ is_running = FALSE

(* GPIOManager.__init__ over a freshly imported driver. *)
Init ==
    /\ gpioPins = [p \in MockPins |-> MockPin(IN_MODE, LOW)]
    /\ validPins = [cached |-> TRUE, pins |-> SortedSeq(MockPins)]
    /\ pinModes = [p \in PinUniverse |-> None]
    /\ outputPinStates = [p \in PinUniverse |-> None]
    /\ pinCallbacks = [p \in MockPins |-> {}]
    /\ pwmPins = <<>>
    /\ initialized = TRUE
    /\ hw_initialized = TRUE
    /\ last = NoCall
    /\ InitLayer

(* Variant: no try/except around the single callback; the first raising
   callback ends the loop and its exception leaves the loop. *)
DispatchChangeNoIsolation(regs, pin, state) ==
    LET order == SetOrder(regs)
        bad == {i \in 1..Len(order) : order[i].on_change \in RaisingFns}
        n == IF bad = {} THEN Len(order) ELSE Min(bad)
    IN
    [err |-> IF bad = {} THEN "none" ELSE "Exception",
     calls |-> [i \in 1..n |-> Call(order[i].on_change, pin, state)],
     raised |-> {order[i].on_change : i \in 1..n} \cap RaisingFns]

(* The per-callback try/except of the dispatch loops: every registration's
   on_change is invoked with (pin, state); a raising callback is logged. *)
DispatchChange(regs, pin, state) ==
    LET order == SetOrder(regs) IN
    [err |-> "none",
     calls |-> [i \in 1..Len(order) |-> Call(order[i].on_change, pin, state)],
     raised |-> {r.on_change : r \in regs} \cap RaisingFns]

(* The on_clear loop of clear_pin and cleanup for one pin. *)
DispatchClear(regs, pin, g) ==
    LET order == SetOrder({r \in regs : r.on_clear # NoCallback}) IN
    IF g.err # "none" THEN [calls |-> <<>>, raised |-> {}, reads |-> 0]
    ELSE [calls |-> [i \in 1..Len(order) |-> Call(order[i].on_clear, pin, g.ret)],
          raised |-> {r.on_clear : r \in regs} \cap RaisingFns,
          reads |-> Len(order) * g.reads]

(* Variant: the output pin is seeded LOW. *)
init_state_LOW == LOW

(* configure_pin: init_state = HIGH *)
init_state == HIGH

(* configure_pin: the check of current_mode that precedes the setup. *)
AlreadyConfigured(current_mode) == current_mode # None

(* Variant: the initial callback runs before the pin's mode and cache are
   recorded, so it is handed the state of an unconfigured pin. *)
InitialCallbackBeforeSetup(callback, pin, g) ==
    IF g.err # "none" THEN <<>> ELSE <<Call(callback, pin, UNDEFINED)>>

(* configure_pin: the initial callback, callback(pin, self.get_pin_state(pin)),
   inside its try/except. *)
InitialCallback(callback, pin, g) ==
    IF g.err # "none" THEN <<>> ELSE <<Call(callback, pin, g.ret)>>

(* Variant: only the unconfigured pin is rejected before the write. *)
SetStateGuardNoModeCheck(mode) ==
    IF mode = None THEN [err |-> "RuntimeError", msg |-> "not configured"]
    ELSE [err |-> "none", msg |-> ""]

(* set_pin_state: the checks of the mode that precede the write. *)
SetStateGuard(mode) ==
    IF mode = None THEN [err |-> "RuntimeError", msg |-> "not configured"]
    ELSE IF mode \notin {IN_MODE, OUT_MODE}
         THEN [err |-> "ValueError", msg |-> "not configured as input or output"]
    ELSE IF mode # OUT_MODE
         THEN [err |-> "ValueError", msg |-> "not configured as output"]
    ELSE [err |-> "none", msg |-> ""]

(* Variant: the cache is never written by set_pin_state. *)
CacheNeverUpdated(cache, pin, state, hwErr) == cache

(* Variant: the cache is written before the adapter is called. *)
CacheBeforeWrite(cache, pin, state, hwErr) == [cache EXCEPT ![pin] = state]

(* set_pin_state: self._output_pin_states[pin] = state follows the adapter
   write inside the try, so it runs only if the write did not raise. *)
CacheAfterWrite(cache, pin, state, hwErr) ==
    IF hwErr = "none" THEN [cache EXCEPT ![pin] = state] ELSE cache

(* Variant: the callbacks run first, on the state before the write. *)
DispatchViewBeforeWrite(before, after) == before

(* set_pin_state: the loop over self._pin_callbacks[pin] follows
   HW.set_output_state and the assignment to self._output_pin_states, so a
   callback runs on the state after both. *)
DispatchView(before, after) == after

(* configure_pin(pin, mode, callback, on_clear) *)
configure_pin(pin, mode, reg, faults) ==
    UNCHANGED <<pwmPins, initialized, hw_initialized>> /\ (
    LET callback == reg.on_change
        base == [NoCall EXCEPT !.op = "configure_pin", !.pin = pin,
                               !.arg = mode, !.cb = callback,
                               !.faults = faults]
    IN
    IF AlreadyConfigured(pinModes[pin])
    THEN /\ last' = [base EXCEPT !.err = "RuntimeError", !.msg = "already configured"]
         /\ UNCHANGED <<pinModes, outputPinStates, pinCallbacks, validPins, gpioPins>>
    ELSE
    LET hw == IF mode = IN_MODE
              THEN HW_setup_input_pin(gpioPins, pin, PUD_OFF, TRUE,
                                      "input_callback", faults)
              ELSE IF mode = OUT_MODE
                   THEN HW_setup_output_pin(gpioPins, pin, init_state, faults)
              ELSE [err |-> "none", gp |-> gpioPins, setups |-> 0]
        known == mode \in {IN_MODE, OUT_MODE}
        modes1 == IF known /\ hw.err = "none"
                  THEN [pinModes EXCEPT ![pin] = mode] ELSE pinModes
        cache1 == IF mode = OUT_MODE /\ hw.err = "none"
                  THEN [outputPinStates EXCEPT ![pin] = init_state]
                  ELSE outputPinStates
        keyError == known /\ callback # NoCallback /\ pin \notin DOMAIN pinCallbacks
        g == GetPinState(modes1, cache1, validPins, hw.gp, pin, faults)
        calls == IF callback = NoCallback THEN <<>> ELSE InitialCallback(callback, pin, g)
    IN
    IF hw.err # "none" \/ keyError
    THEN /\ pinModes' = modes1
         /\ outputPinStates' = cache1
         /\ gpioPins' = hw.gp
         /\ last' = [base EXCEPT !.err = "RuntimeError",
                                 !.msg = "Hardware configuration failed",
                                 !.hwErr = hw.err, !.setups = hw.setups]
         /\ UNCHANGED <<pinCallbacks, validPins>>
    ELSE /\ pinModes' = modes1
         /\ outputPinStates' = cache1
         /\ gpioPins' = hw.gp
         /\ pinCallbacks' = IF known /\ callback # NoCallback
                            THEN [pinCallbacks EXCEPT ![pin] = @ \cup {reg}]
                            ELSE pinCallbacks
         /\ validPins' = IF callback = NoCallback THEN validPins ELSE g.vp
         /\ last' = [base EXCEPT !.setups = hw.setups, !.calls = calls,
                        !.raised = {calls[i].fn : i \in 1..Len(calls)} \cap RaisingFns,
                        !.reads = IF callback = NoCallback THEN 0 ELSE g.reads]
    )

(* watch_pin(pin, callback, on_clear) *)
watch_pin(pin, reg, faults) ==
    UNCHANGED <<pwmPins, initialized, hw_initialized>> /\ (
    LET base == [NoCall EXCEPT !.op = "watch_pin", !.pin = pin, !.cb = reg.on_change,
                               !.faults = faults]
        v == HW_get_valid_pins(validPins, gpioPins)
        g == GetPinState(pinModes, outputPinStates, v.vp, gpioPins, pin, faults)
        calls == IF g.err # "none" THEN <<>> ELSE <<Call(reg.on_change, pin, g.ret)>>
    IN
    IF v.err # "none"
    THEN /\ last' = [base EXCEPT !.err = v.err, !.msg = "No valid pins found"]
         /\ UNCHANGED <<pinModes, outputPinStates, pinCallbacks, validPins, gpioPins>>
    ELSE IF pin \notin SeqToSet(v.pins)
    THEN /\ last' = [base EXCEPT !.err = "ValueError", !.msg = "Invalid pin number"]
         /\ validPins' = v.vp
         /\ UNCHANGED <<pinModes, outputPinStates, pinCallbacks, gpioPins>>
    ELSE IF pin \notin DOMAIN pinCallbacks
    THEN /\ last' = [base EXCEPT !.err = "KeyError"]
         /\ validPins' = v.vp
         /\ UNCHANGED <<pinModes, outputPinStates, pinCallbacks, gpioPins>>
    ELSE /\ pinCallbacks' = [pinCallbacks EXCEPT ![pin] = @ \cup {reg}]
         /\ validPins' = g.vp
         /\ last' = [base EXCEPT !.calls = calls,
                        !.raised = {reg.on_change} \cap RaisingFns, !.reads = g.reads]
         /\ UNCHANGED <<pinModes, outputPinStates, gpioPins>>
    )

(* set_pin_state(pin, state) *)
set_pin_state(pin, state, faults) ==
    UNCHANGED <<pwmPins, initialized, hw_initialized>> /\ (
    LET base == [NoCall EXCEPT !.op = "set_pin_state", !.pin = pin, !.arg = state,
                               !.faults = faults]
        guard == SetStateGuard(pinModes[pin])
        w == HW_set_output_state(gpioPins, validPins, pin, state, faults)
        keyError == pin \notin DOMAIN pinCallbacks
        d == DispatchChange(pinCallbacks[pin], pin, state)
        view == DispatchView(
                  [cache |-> outputPinStates, gp |-> gpioPins],
                  [cache |-> CacheAfterWrite(outputPinStates, pin, state, w.err),
                   gp |-> w.gp])
        (* what a callback gets from get_pin_state(pin), and the driver's level *)
        seen == [state |-> GetPinState(pinModes, view.cache, w.vp, view.gp, pin, {}).ret,
                 level |-> view.gp[pin].value]
    IN
    IF guard.err # "none"
    THEN /\ last' = [base EXCEPT !.err = guard.err, !.msg = guard.msg]
         /\ UNCHANGED <<pinModes, outputPinStates, pinCallbacks, validPins, gpioPins>>
    ELSE /\ gpioPins' = w.gp
         /\ validPins' = w.vp
         /\ outputPinStates' = CacheAfterWrite(outputPinStates, pin, state, w.err)
         /\ UNCHANGED <<pinModes, pinCallbacks>>
         /\ IF w.err # "none" \/ keyError
            THEN last' = [base EXCEPT !.err = "RuntimeError",
                             !.msg = "Failed to set pin state",
                             !.hwErr = w.err, !.writes = w.writes]
            ELSE last' = [base EXCEPT
                             !.err = IF d.err = "none" THEN "none" ELSE "RuntimeError",
                             !.msg = IF d.err = "none" THEN "" ELSE "Failed to set pin state",
                             !.writes = w.writes, !.calls = d.calls,
                             !.seen = [i \in 1..Len(d.calls) |-> seen],
                             !.raised = {d.calls[i].fn : i \in 1..Len(d.calls)} \cap RaisingFns]
    )

(* Variant: the registrations stay in the pin's set. *)
CallbacksKept(regs) == regs

(* clear_pin: self._pin_callbacks[pin].clear() after the on_clear loop. *)
CallbacksCleared(regs) == {}

(* Variant: the cached state outlives the pin's configuration. *)
CacheKeptOnClear(cache, pin) == cache

(* clear_pin: self._output_pin_states.pop(pin, None) *)
CachePopped(cache, pin) == [cache EXCEPT ![pin] = None]

(* clear_pin(pin) *)
clear_pin(pin, faults) ==
    UNCHANGED <<pwmPins, initialized, hw_initialized>> /\ (
    LET base == [NoCall EXCEPT !.op = "clear_pin", !.pin = pin, !.faults = faults]
        v == HW_get_valid_pins(validPins, gpioPins)
        g == GetPinState(pinModes, outputPinStates, v.vp, gpioPins, pin, faults)
        d == DispatchClear(pinCallbacks[pin], pin, g)
    IN
    IF v.err # "none"
    THEN /\ last' = [base EXCEPT !.err = v.err, !.msg = "No valid pins found"]
         /\ UNCHANGED <<pinModes, outputPinStates, pinCallbacks, validPins, gpioPins>>
    ELSE IF pin \notin SeqToSet(v.pins)
    THEN /\ last' = [base EXCEPT !.err = "ValueError", !.msg = "Invalid pin number"]
         /\ validPins' = v.vp
         /\ UNCHANGED <<pinModes, outputPinStates, pinCallbacks, gpioPins>>
    ELSE IF pin \notin DOMAIN pinCallbacks
    THEN /\ last' = [base EXCEPT !.err = "KeyError"]
         /\ validPins' = v.vp
         /\ UNCHANGED <<pinModes, outputPinStates, pinCallbacks, gpioPins>>
    ELSE /\ pinCallbacks' = [pinCallbacks EXCEPT ![pin] = CallbacksCleared(@)]
         /\ outputPinStates' = CachePopped(outputPinStates, pin)
         /\ pinModes' = [pinModes EXCEPT ![pin] = None]
         /\ validPins' = v.vp
         /\ gpioPins' = IF HWCleanupTakesPin
                        THEN [q \in (DOMAIN gpioPins) \ {pin} |-> gpioPins[q]]
                        ELSE gpioPins
         /\ last' = [base EXCEPT
                        !.err = IF HWCleanupTakesPin THEN "none" ELSE "RuntimeError",
                        !.msg = IF HWCleanupTakesPin THEN "" ELSE "Hardware cleanup failed",
                        !.hwErr = IF HWCleanupTakesPin THEN "none" ELSE "TypeError",
                        !.calls = d.calls, !.raised = d.raised, !.reads = d.reads]
    )

(* cleanup(): the on_clear loop over every pin of _pin_callbacks. *)
RECURSIVE CleanupCalls(_, _)
CleanupCalls(pins, faults) ==
    IF pins = <<>> THEN [calls |-> <<>>, raised |-> {}, reads |-> 0]
    ELSE LET pin == Head(pins)
             g == GetPinState(pinModes, outputPinStates, validPins, gpioPins, pin, faults)
             d == DispatchClear(pinCallbacks[pin], pin, g)
             rest == CleanupCalls(Tail(pins), faults)
         IN [calls |-> d.calls \o rest.calls,
             raised |-> d.raised \cup rest.raised,
             reads |-> d.reads + rest.reads]

(* The PWM table self._pwm_pins is an ordered dict: a sequence of PWMInfo
   records in insertion order. *)
PwmPinsOf(tbl) == {tbl[i].pin : i \in 1..Len(tbl)}

PwmIndex(tbl, pin) == CHOOSE i \in 1..Len(tbl) : tbl[i].pin = pin

(* del self._pwm_pins[pin] *)
PwmDelete(tbl, pin) ==
    LET k == PwmIndex(tbl, pin) IN
    [i \in 1..(Len(tbl) - 1) |-> IF i < k THEN tbl[i] ELSE tbl[i + 1]]

(* self._pwm_pins[pin] = pwm_info: an existing key keeps its place. *)
PwmStore(tbl, info) ==
    IF info.pin \in PwmPinsOf(tbl)
    THEN [tbl EXCEPT ![PwmIndex(tbl, info.pin)] = info]
    ELSE Append(tbl, info)

(* mock_gpio.PWM(channel, frequency): the driver's PWM object.  `running`
   is the state start() and stop() switch in the driver. *)
gpio_PWM(channel, frequency) ==
    [frequency |-> frequency, dutycycle |-> 0, running |-> FALSE]

(* The adapter's pwm(pin, frequency): a PWMInfo holding the driver's PWM
   object, the pin, the frequency and no duty cycle yet. *)
HW_pwm(gp, pin, frequency) ==
    IF pin \notin DOMAIN gp
    THEN [err |-> "RuntimeError",
          info |-> [pin |-> pin, frequency |-> frequency, duty_cycle |-> None,
                    pwm |-> gpio_PWM(pin, frequency)]]
    ELSE [err |-> "none",
          info |-> [pin |-> pin, frequency |-> frequency, duty_cycle |-> None,
                    pwm |-> gpio_PWM(pin, frequency)]]

(* Variant: removing one channel empties the table. *)
RemovePwmAll(tbl, pin) == <<>>

(* remove_pwm(pin) as a function of the table. *)
RemovePwm(tbl, pin) ==
    IF pin \notin PwmPinsOf(tbl) THEN tbl ELSE PwmDelete(tbl, pin)

(* cleanup: [self.remove_pwm(pin) for pin in self._pwm_pins] followed by
   self._pwm_pins.clear().  remove_pwm deletes from the dict the
   comprehension iterates over, so with a channel in the table the iterator
   raises RuntimeError (dictionary changed size during iteration) after the
   first channel was stopped and deleted, and clear() is not reached. *)
CleanupPwmLoop(tbl) ==
    IF tbl = <<>> THEN [err |-> "none", tbl |-> <<>>, stopped |-> {}]
    ELSE [err |-> "RuntimeError", tbl |-> RemovePwm(tbl, tbl[1].pin),
          stopped |-> {tbl[1].pin}]

(* The statements of cleanup() in the order they run: the on_clear loop,
   HW.cleanup(), the three clear() calls, then the remove_pwm comprehension. *)
CleanupSteps(calls, stopped) ==
    [i \in 1..Len(calls) |-> "on_clear"] \o <<"HW.cleanup", "clear">>
    \o [i \in 1..Cardinality(stopped) |-> "remove_pwm"]

(* cleanup() *)
cleanup(faults) ==
    LET d == CleanupCalls(SortedSeq(DOMAIN pinCallbacks), faults)
        loop == CleanupPwmLoop(pwmPins)
    IN
    /\ gpioPins' = [q \in {} |-> MockPin(IN_MODE, LOW)]
    /\ validPins' = [cached |-> FALSE, pins |-> <<>>]
    /\ outputPinStates' = [q \in PinUniverse |-> None]
    /\ pinModes' = [q \in PinUniverse |-> None]
    /\ pinCallbacks' = [q \in {} |-> {}]
    /\ pwmPins' = loop.tbl
    /\ last' = [NoCall EXCEPT !.op = "cleanup", !.faults = faults, !.calls = d.calls,
                              !.raised = d.raised, !.reads = d.reads,
                              !.err = IF loop.err = "none" THEN "none" ELSE "RuntimeError",
                              !.msg = IF loop.err = "none" THEN "" ELSE "Cleanup failed",
                              !.hwErr = loop.err, !.stopped = loop.stopped,
                              !.steps = CleanupSteps(d.calls, loop.stopped)]
    /\ hw_initialized' = FALSE
    /\ UNCHANGED initialized

(* setup_pwm's three checks before anything is built: the message of the
   ValueError raised, "" when the pin passes. *)
SetupPwmGuardNoModeCheck(valid, mode) ==
    IF ~valid THEN "Invalid GPIO pin" ELSE ""

SetupPwmGuard(valid, mode) ==
    IF ~valid THEN "Invalid GPIO pin"
    ELSE IF mode = None THEN "not configured"
    ELSE IF mode # OUT_MODE THEN "not configured as output"
    ELSE ""

(* HARDWARE_PWM_PINS of setup_pwm. *)
HARDWARE_PWM_PINS == <<12, 13, 18, 19>>

(* HW_PWM_PINS of setup_pwm: the hardware-PWM pins that have a channel, in
   the order of HARDWARE_PWM_PINS, with the pin being set up appended. *)
HW_PWM_PINS(tbl, pin) ==
    SelectSeq(HARDWARE_PWM_PINS, LAMBDA x : x \in PwmPinsOf(tbl)) \o <<pin>>

(* len([x for x in s if x in S]) *)
LenIn(s, S) == Cardinality({i \in 1..Len(s) : s[i] \in S})

(* The if/elif of setup_pwm that picks the shared-generator warning. *)
SharedWarning(tbl, pin) ==
    IF LenIn(HW_PWM_PINS(tbl, pin), {12, 13}) > 1 THEN {"12/13"}
    ELSE IF LenIn(HW_PWM_PINS(tbl, pin), {18, 19}) > 1 THEN {"18/19"}
    ELSE {}

(* The warnings setup_pwm logs once the pin passed its checks. *)
PwmWarnings(tbl, pin) ==
    (IF pin \in PwmPinsOf(tbl) THEN {"exists"} ELSE {})
    \cup (IF pin \notin SeqToSet(HARDWARE_PWM_PINS) THEN {"software"}
          ELSE SharedWarning(tbl, pin))

(* setup_pwm(pin, frequency) *)
setup_pwm(pin, frequency) ==
    LET base == [NoCall EXCEPT !.op = "setup_pwm", !.pin = pin, !.arg = frequency]
        v == HW_get_valid_pins(validPins, gpioPins)
        g == SetupPwmGuard(pin \in SeqToSet(v.pins), pinModes[pin])
        hw == HW_pwm(gpioPins, pin, frequency)
        built == [base EXCEPT !.pwms = 1, !.warn = PwmWarnings(pwmPins, pin)]
    IN
    /\ UNCHANGED <<pinModes, outputPinStates, pinCallbacks, gpioPins, initialized, hw_initialized>>
    /\ validPins' = v.vp
    /\ IF v.err # "none"
       THEN /\ last' = [base EXCEPT !.err = v.err, !.msg = "No valid pins found"]
            /\ UNCHANGED pwmPins
       ELSE IF g # ""
       THEN /\ last' = [base EXCEPT !.err = "ValueError", !.msg = g]
            /\ UNCHANGED pwmPins
       ELSE IF hw.err # "none"
       THEN /\ last' = [built EXCEPT !.err = "RuntimeError",
                                      !.msg = "Failed to set up PWM", !.hwErr = hw.err]
            /\ UNCHANGED pwmPins
       ELSE /\ last' = built
            /\ pwmPins' = PwmStore(pwmPins, hw.info)

(* mock_gpio.PWM.ChangeDutyCycle(dutycycle) *)
PWM_ChangeDutyCycle(pwm, dutycycle) ==
    IF ~(0 <= dutycycle /\ dutycycle <= 100)
    THEN [err |-> "ValueError", pwm |-> pwm]
    ELSE [err |-> "none", pwm |-> [pwm EXCEPT !.dutycycle = dutycycle]]

(* self._pwm_pins[pin].duty_cycle = duty_cycle *)
DutyNotRecorded(info, duty_cycle) == info

DutyRecorded(info, duty_cycle) == [info EXCEPT !.duty_cycle = duty_cycle]

(* set_pwm_duty_cycle(pin, duty_cycle) *)
set_pwm_duty_cycle(pin, duty_cycle) ==
    LET base == [NoCall EXCEPT !.op = "set_pwm_duty_cycle", !.pin = pin,
                               !.arg = duty_cycle]
    IN
    /\ UNCHANGED <<pinModes, outputPinStates, pinCallbacks, validPins, gpioPins,
                   initialized, hw_initialized>>
    /\ IF pin \notin PwmPinsOf(pwmPins)
       THEN /\ last' = [base EXCEPT !.err = "ValueError", !.msg = "PWM does not exist"]
            /\ UNCHANGED pwmPins
       ELSE IF duty_cycle < 0 \/ duty_cycle > 100
       THEN /\ last' = [base EXCEPT !.err = "ValueError", !.msg = "Invalid duty cycle"]
            /\ UNCHANGED pwmPins
       ELSE LET k == PwmIndex(pwmPins, pin)
                c == PWM_ChangeDutyCycle(pwmPins[k].pwm, duty_cycle)
            IN
            IF c.err # "none"
            THEN /\ last' = [base EXCEPT !.err = c.err, !.hwErr = c.err]
                 /\ UNCHANGED pwmPins
            ELSE /\ last' = base
                 /\ pwmPins' = [pwmPins EXCEPT
                                   ![k] = DutyRecorded([@ EXCEPT !.pwm = c.pwm],
                                                       duty_cycle)]

(* start_pwm(pin, duty_cycle) *)
start_pwm(pin, duty_cycle) ==
    LET base == [NoCall EXCEPT !.op = "start_pwm", !.pin = pin, !.arg = duty_cycle] IN
    /\ UNCHANGED <<pinModes, outputPinStates, pinCallbacks, validPins, gpioPins,
                   initialized, hw_initialized>>
    /\ IF pin \notin PwmPinsOf(pwmPins)
       THEN /\ last' = [base EXCEPT !.err = "ValueError", !.msg = "PWM does not exist"]
            /\ UNCHANGED pwmPins
       ELSE IF duty_cycle < 0 \/ duty_cycle > 100
       THEN /\ last' = [base EXCEPT !.err = "ValueError",
                                     !.msg = "Duty cycle must be between 0.0 and 100.0"]
            /\ UNCHANGED pwmPins
       ELSE /\ last' = base
            /\ pwmPins' = [pwmPins EXCEPT ![PwmIndex(pwmPins, pin)].pwm =
                              [@ EXCEPT !.dutycycle = duty_cycle, !.running = TRUE]]

(* stop_pwm(pin) *)
stop_pwm(pin) ==
    LET base == [NoCall EXCEPT !.op = "stop_pwm", !.pin = pin] IN
    /\ UNCHANGED <<pinModes, outputPinStates, pinCallbacks, validPins, gpioPins,
                   initialized, hw_initialized>>
    /\ IF pin \notin PwmPinsOf(pwmPins)
       THEN /\ last' = [base EXCEPT !.err = "ValueError", !.msg = "PWM does not exist"]
            /\ UNCHANGED pwmPins
       ELSE /\ last' = [base EXCEPT !.stopped = {pin}]
            /\ pwmPins' = [pwmPins EXCEPT ![PwmIndex(pwmPins, pin)].pwm.running = FALSE]

(* remove_pwm(pin) *)
remove_pwm(pin) ==
    /\ UNCHANGED <<pinModes, outputPinStates, pinCallbacks, validPins, gpioPins,
                   initialized, hw_initialized>>
    /\ last' = [NoCall EXCEPT !.op = "remove_pwm", !.pin = pin,
                              !.stopped = {pin} \cap PwmPinsOf(pwmPins)]
    /\ pwmPins' = RemovePwm(pwmPins, pin)

(* The driver reports an edge on an input pin with edge detection: the level
   becomes `level` and gpio_callback -> input_callback run in the driver's
   thread. *)
edge_event(pin, level, faults) ==
    /\ pin \in DOMAIN gpioPins
    /\ gpioPins[pin].mode = IN_MODE
    /\ gpioPins[pin].events > 0
    /\ gpioPins[pin].value # level
    /\ UNCHANGED <<pwmPins, initialized, hw_initialized>>
    /\ LET base == [NoCall EXCEPT !.op = "edge_event", !.pin = pin, !.arg = level,
                                  !.faults = faults]
           gp1 == [gpioPins EXCEPT ![pin].value = level]
           r == HW_get_pin_state(gp1, validPins, pin, faults)
           keyError == pin \notin DOMAIN pinCallbacks
           d == DispatchChange(pinCallbacks[pin], pin, r.state)
       IN
       /\ gpioPins' = gp1
       /\ validPins' = r.vp
       /\ UNCHANGED <<pinModes, outputPinStates, pinCallbacks>>
       /\ IF r.err # "none"
          THEN last' = [base EXCEPT !.err = r.err, !.hwErr = r.err, !.reads = r.reads]
          ELSE IF keyError
          THEN last' = [base EXCEPT !.err = "KeyError", !.reads = r.reads]
          ELSE last' = [base EXCEPT !.calls = d.calls, !.raised = d.raised,
                                    !.reads = r.reads]

(* get_pin_state(pin) *)
get_pin_state(pin, faults) ==
    UNCHANGED <<pwmPins, initialized, hw_initialized>> /\ (
    LET g == GetPinState(pinModes, outputPinStates, validPins, gpioPins, pin, faults) IN
    /\ validPins' = g.vp
    /\ last' = [NoCall EXCEPT !.op = "get_pin_state", !.pin = pin, !.faults = faults,
                              !.err = g.err, !.ret = g.ret, !.reads = g.reads]
    /\ UNCHANGED <<pinModes, outputPinStates, pinCallbacks, gpioPins>>
    )

(* The shape of the state. *)
TypeOK ==
    /\ pinModes \in [PinUniverse -> {None, IN_MODE, OUT_MODE}]
    /\ outputPinStates \in [PinUniverse -> {None, HIGH, LOW}]
    /\ DOMAIN pinCallbacks \subseteq PinUniverse
    /\ \A p \in DOMAIN pinCallbacks :
          pinCallbacks[p] \subseteq Registrations \cup {RelayReg, GateReg}
    /\ validPins.cached \in BOOLEAN
    /\ DOMAIN gpioPins \subseteq PinUniverse
    /\ PwmPinsOf(pwmPins) \subseteq PinUniverse
    /\ Cardinality(PwmPinsOf(pwmPins)) = Len(pwmPins)
    /\ initialized \in BOOLEAN

(* get_valid_pins() of the manager: HW.get_valid_pins() *)
get_valid_pins ==
    LET v == HW_get_valid_pins(validPins, gpioPins) IN
    /\ validPins' = v.vp
    /\ last' = [NoCall EXCEPT !.op = "get_valid_pins", !.err = v.err,
                              !.msg = IF v.err = "none" THEN "" ELSE "No valid pins found",
                              !.pins = v.pins, !.scans = v.scans]
    /\ UNCHANGED <<pinModes, outputPinStates, pinCallbacks, pwmPins, gpioPins,
                   initialized, hw_initialized>>

RegInputs == Registrations \cup {CallbackInfo(NoCallback, NoCallback)}

(* The callables registered on a pin, by kind. *)
ChangeFnsOn(pin) ==
    IF pin \in DOMAIN pinCallbacks THEN {r.on_change : r \in pinCallbacks[pin]} ELSE {}
ClearFnsOn(pin) ==
    IF pin \in DOMAIN pinCallbacks
    THEN {r.on_clear : r \in pinCallbacks[pin]} \ {NoCallback} ELSE {}

(* Faults are drawn among those a call can reach. *)
ReadFaults(pin) == IF pinModes[pin] = IN_MODE THEN {"input"} ELSE {}

(* No call is being observed: the caller is between two calls. *)
Idle == last = NoCall

(* The caller has taken the result of the call and is idle again. *)
Return ==
    /\ ~Idle
    /\ gpio_lock # "blocked"
    /\ last' = NoCall
    /\ UNCHANGED <<pinModes, outputPinStates, pinCallbacks, pwmPins, validPins,
                   gpioPins, initialized, hw_initialized>>
    /\ UNCHANGED layerVars

Next ==
    \/ Return
    \/ /\ Idle /\ UNCHANGED layerVars
       /\ \E pin \in CallerPins : \E faults \in SUBSET ReadFaults(pin) :
            get_pin_state(pin, faults)
    \/ /\ Idle /\ UNCHANGED layerVars
       /\ \E pin \in CallerPins, mode \in ModeInputs, reg \in RegInputs :
          \E faults \in SUBSET (IF AlreadyConfigured(pinModes[pin]) THEN {}
                             ELSE (IF mode \in {IN_MODE, OUT_MODE} THEN {"setup"} ELSE {})
                                  \cup (IF mode = IN_MODE /\ reg.on_change # NoCallback
                                        THEN {"input"} ELSE {})) :
            configure_pin(pin, mode, reg, faults)
    \/ /\ Idle /\ UNCHANGED layerVars
       /\ \E pin \in CallerPins, reg \in Registrations :
          \E faults \in SUBSET ReadFaults(pin) :
            watch_pin(pin, reg, faults)
    \/ /\ Idle /\ UNCHANGED layerVars
       /\ \E pin \in CallerPins, state \in StateInputs :
          \E faults \in SUBSET (IF pinModes[pin] = OUT_MODE THEN {"output"} ELSE {}) :
            set_pin_state(pin, state, faults)
    \/ /\ Idle /\ UNCHANGED layerVars
       /\ \E pin \in CallerPins : \E faults \in SUBSET ReadFaults(pin) :
            clear_pin(pin, faults)
    \/ /\ Idle /\ UNCHANGED layerVars
       /\ cleanup({})
    \/ /\ Idle /\ UNCHANGED layerVars
       /\ get_valid_pins
    \/ /\ Idle /\ UNCHANGED layerVars
       /\ \E pin \in CallerPins, level \in {HIGH, LOW} :
          \E faults \in SUBSET {"input"} :
            edge_event(pin, level, faults)

Spec == Init /\ [][Next]_vars

(* Inputs of the PWM calls: a frequency, and the default duty cycle of
   start_pwm next to one outside 0..100. *)
PwmFrequencies == {100}
DutyInputs == {50, 101}

(* The callers that drive PWM: pins are configured, given PWM channels,
   cleared and cleaned up. *)
NextPWM ==
    \/ Return
    \/ /\ Idle /\ UNCHANGED layerVars
       /\ \E pin \in MockPins, mode \in {IN_MODE, OUT_MODE},
             reg \in {CallbackInfo(NoCallback, NoCallback), CallbackInfo("cb2", "clr2")} :
            configure_pin(pin, mode, reg, {})
    \/ /\ Idle /\ UNCHANGED layerVars
       /\ \E pin \in MockPins \cup {InvalidPin}, frequency \in PwmFrequencies :
            setup_pwm(pin, frequency)
    \/ /\ Idle /\ UNCHANGED layerVars
       /\ \E pin \in MockPins, duty_cycle \in DutyInputs : start_pwm(pin, duty_cycle)
    \/ /\ Idle /\ UNCHANGED layerVars
       /\ \E pin \in MockPins : stop_pwm(pin)
    \/ /\ Idle /\ UNCHANGED layerVars
       /\ \E pin \in MockPins : remove_pwm(pin)
    \/ /\ Idle /\ UNCHANGED layerVars
       /\ \E pin \in MockPins : clear_pin(pin, {})
    \/ /\ Idle /\ UNCHANGED layerVars
       /\ cleanup({})

SpecPWM == Init /\ [][NextPWM]_vars

(* Duty cycles handed to set_pwm_duty_cycle: both limits of the range and
   the first value beyond each. *)
DutyCycleInputs == {0 - 1, 0, 100, 101}

(* A caller that adjusts the duty cycle of the channels it set up. *)
NextDuty ==
    \/ Return
    \/ /\ Idle /\ UNCHANGED layerVars
       /\ \E pin \in CallerPins :
            configure_pin(pin, OUT_MODE, CallbackInfo(NoCallback, NoCallback), {})
    \/ /\ Idle /\ UNCHANGED layerVars
       /\ \E pin \in CallerPins, frequency \in PwmFrequencies :
            setup_pwm(pin, frequency)
    \/ /\ Idle /\ UNCHANGED layerVars
       /\ \E pin \in CallerPins, duty_cycle \in DutyCycleInputs :
            set_pwm_duty_cycle(pin, duty_cycle)
    \/ /\ Idle /\ UNCHANGED layerVars
       /\ \E pin \in CallerPins : start_pwm(pin, 50)
    \/ /\ Idle /\ UNCHANGED layerVars
       /\ \E pin \in CallerPins : remove_pwm(pin)

SpecDuty == Init /\ [][NextDuty]_vars

(* The hardware-PWM pins as a set. *)
HardwarePwmPins == SeqToSet(HARDWARE_PWM_PINS)

(* A caller that puts PWM on the hardware-PWM pins.  Of these the driver's
   board table has pin 18 only; the others become valid pins once cleanup()
   dropped the cached list and configure_pin set them up in the driver. *)
NextShared ==
    \/ Return
    \/ /\ Idle /\ UNCHANGED layerVars
       /\ cleanup({})
    \/ /\ Idle /\ UNCHANGED layerVars
       /\ \E pin \in HardwarePwmPins :
            configure_pin(pin, OUT_MODE, CallbackInfo(NoCallback, NoCallback), {})
    \/ /\ Idle /\ UNCHANGED layerVars
       /\ \E pin \in HardwarePwmPins, frequency \in PwmFrequencies :
            setup_pwm(pin, frequency)
    \/ /\ Idle /\ UNCHANGED layerVars
       /\ \E pin \in HardwarePwmPins : remove_pwm(pin)

SpecShared == Init /\ [][NextShared]_vars

(* Two pins of the board, for callers that work on one pin while another
   one is in use. *)
FramePins == {rpi3B_pins[1], rpi3B_pins[2]}

(* A caller that uses every per-pin operation of the manager on two pins. *)
NextFrame ==
    \/ Return
    \/ /\ Idle /\ UNCHANGED layerVars
       /\ \E pin \in FramePins, mode \in {IN_MODE, OUT_MODE} :
            configure_pin(pin, mode, CallbackInfo(NoCallback, NoCallback), {})
    \/ /\ Idle /\ UNCHANGED layerVars
       /\ \E pin \in FramePins : watch_pin(pin, CallbackInfo("cb1", NoCallback), {})
    \/ /\ Idle /\ UNCHANGED layerVars
       /\ \E pin \in FramePins, state \in {HIGH, LOW} : set_pin_state(pin, state, {})
    \/ /\ Idle /\ UNCHANGED layerVars
       /\ \E pin \in FramePins : clear_pin(pin, {})
    \/ /\ Idle /\ UNCHANGED layerVars
       /\ \E pin \in FramePins, frequency \in PwmFrequencies : setup_pwm(pin, frequency)
    \/ /\ Idle /\ UNCHANGED layerVars
       /\ \E pin \in FramePins : start_pwm(pin, 50)
    \/ /\ Idle /\ UNCHANGED layerVars
       /\ \E pin \in FramePins : stop_pwm(pin)
    \/ /\ Idle /\ UNCHANGED layerVars
       /\ \E pin \in FramePins : remove_pwm(pin)
    \/ /\ Idle /\ UNCHANGED layerVars
       /\ \E pin \in FramePins : set_pwm_duty_cycle(pin, 100)

SpecFrame == Init /\ [][NextFrame]_vars

-----------------------------------------------------------------------------
(* The web routes: features/gpio/routes.py.  A request takes gpio_lock in   *)
(* one step and runs its body, up to the release of the lock, in a second; *)
(* `last` is then the manager call the request made.  gpio_lock is "free", *)
(* the name of the request holding it, or "blocked" once the holder waits  *)
(* for the lock it holds itself.                                           *)

managerVars == <<pinModes, outputPinStates, pinCallbacks, pwmPins, validPins,
                 gpioPins, initialized, hw_initialized>>

(* ws.send(message) to a client that still reads: `first` keeps the kind of
   the first message the connection received. *)
Send(socks, w, kind) ==
    [socks EXCEPT ![w].first = IF @ = "none" THEN kind ELSE @]

(* get_configured_pins() *)
get_configured_pins(modes) == {p \in DOMAIN modes : modes[p] # None}

(* cleanup_ws(ws_id).  `holds` says that the calling thread holds gpio_lock
   itself.  out: "absent" (no such connection), "blocked" (the last
   connection, and the thread waits for the lock it holds), "raised" (the
   configure_pin of the callback-removal loop raised) or "closed" (the end
   of the function was reached and the socket closed). *)
cleanup_ws(conns, socks, modes, holds, w) ==
    LET rest == SelectSeq(conns, LAMBDA x : x # w)
        done == [socks EXCEPT ![w].out = IF @ = "none" THEN "closed" ELSE @,
                              ![w].closed = TRUE]
    IN
    IF w \notin SeqToSet(conns)
    THEN [conns |-> conns, socks |-> socks, out |-> "absent"]
    ELSE IF rest # <<>>
    THEN [conns |-> rest, socks |-> done, out |-> "closed"]
    ELSE IF holds
    THEN [conns |-> rest, socks |-> [socks EXCEPT ![w].out = "blocked"],
          out |-> "blocked"]
    ELSE IF \E p \in get_configured_pins(modes) :
               modes[p] \in {IN_MODE, OUT_MODE} /\ AlreadyConfigured(modes[p])
    THEN [conns |-> rest, socks |-> [socks EXCEPT ![w].out = "raised"],
          out |-> "raised"]
    ELSE [conns |-> rest, socks |-> done, out |-> "closed"]

(* for ws_id in dead_connections: cleanup_ws(ws_id) *)
RECURSIVE CleanupDead(_, _, _, _)
CleanupDead(dead, st, modes, holds) ==
    IF dead = <<>> THEN st
    ELSE LET c == cleanup_ws(st.conns, st.socks, modes, holds, Head(dead)) IN
         IF c.out \in {"blocked", "raised"} THEN c
         ELSE CleanupDead(Tail(dead), [c EXCEPT !.out = "ok"], modes, holds)

(* operator.indexOf(a, b): the position of b in a, ValueError when b is not
   in a.  Iterating a dict yields its keys. *)
indexOf(a, b) ==
    IF \E i \in 1..Len(a) : a[i] = b
    THEN [err |-> "none", ret |-> (CHOOSE i \in 1..Len(a) : a[i] = b) - 1]
    ELSE [err |-> "ValueError", ret |-> None]

(* The socket object stored in active_connections under key w.  Keys are
   the positive numbers of WsIds; an object is never equal to a key. *)
SockOfIsKey(w) == w

SockOf(w) == 0 - w

(* The send loop of pin_state_changed over active_connections.items().  The
   except clause of a failed send first formats its log line with
   indexOf(active_connections, ws); if that raises, the exception leaves
   pin_state_changed before the connection is noted as dead. *)
RECURSIVE SendLoop(_, _, _, _)
SendLoop(todo, conns, socks, dead) ==
    IF todo = <<>> THEN [err |-> "none", socks |-> socks, dead |-> dead]
    ELSE LET w == Head(todo) IN
         IF socks[w].alive
         THEN SendLoop(Tail(todo), conns, Send(socks, w, "gpio_pin_update"), dead)
         ELSE IF indexOf(conns, SockOf(w)).err # "none"
         THEN [err |-> indexOf(conns, SockOf(w)).err, socks |-> socks, dead |-> dead]
         ELSE SendLoop(Tail(todo), conns, socks, Append(dead, w))

(* pin_state_changed(pin, state): the update goes to the active connections;
   those noted as dead are cleaned up afterwards. *)
pin_state_changed(conns, socks, modes, holds) ==
    LET l == SendLoop(conns, conns, socks, <<>>) IN
    IF l.err # "none" THEN [conns |-> conns, socks |-> l.socks, out |-> "raised"]
    ELSE CleanupDead(l.dead, [conns |-> conns, socks |-> l.socks, out |-> "ok"],
                     modes, holds)

(* The relay invocations among the callbacks a manager call made. *)
RelayCalls(calls) == SelectSeq(calls, LAMBDA c : c.fn = "relay")

(* What the relay callback does to the routes' state during the manager call
   recorded in last'; `holder` is the request holding gpio_lock, "free" when
   the call comes from the driver's thread. *)
RunRelay(holder) ==
    LET r == IF RelayCalls(last'.calls) = <<>>
             THEN [conns |-> active_connections, socks |-> sockets, out |-> "ok"]
             ELSE pin_state_changed(active_connections, sockets, pinModes',
                                    holder # "free")
    IN
    /\ active_connections' = r.conns
    /\ sockets' = r.socks
    /\ gpio_lock' = IF r.out = "blocked" THEN "blocked"
                    ELSE IF holder = "free" THEN gpio_lock ELSE "free"
    /\ UNCHANGED <<threads, delivered, iter, is_running>>

(* A request answered before it reaches the manager. *)
Refused(op, pin, arg, v) ==
    /\ last' = [NoCall EXCEPT !.op = op, !.pin = pin, !.arg = arg,
                              !.err = IF v.err # "none" THEN "500" ELSE "400"]
    /\ validPins' = v.vp
    /\ UNCHANGED <<pinModes, outputPinStates, pinCallbacks, pwmPins, gpioPins,
                   initialized, hw_initialized>>
    /\ gpio_lock' = "free"
    /\ UNCHANGED <<active_connections, sockets, threads, delivered, iter, is_running>>

(* Variant: the lock is handed out whether or not it is held. *)
LockAvailableAlways(lock) == TRUE

(* threading.Lock: acquire succeeds only while no thread holds the lock. *)
LockAvailable(lock) == lock = "free"

(* with gpio_lock: a request thread takes the free lock. *)
RequestOps == {"configure_gpio", "set_gpio_state", "get_gpio_pins"}

acquire(op) ==
    /\ LockAvailable(gpio_lock)
    /\ gpio_lock' = op
    /\ UNCHANGED <<active_connections, sockets, threads, delivered, iter, is_running, last>>
    /\ UNCHANGED managerVars

(* POST /gpio/api/configure *)
configure_gpio(pin, mode) ==
    LET v == HW_get_valid_pins(validPins, gpioPins) IN
    /\ gpio_lock = "configure_gpio"
    /\ IF v.err # "none" \/ pin \notin SeqToSet(v.pins)
          \/ mode \notin {IN_MODE, OUT_MODE}
       THEN Refused("configure_gpio", pin, mode, v)
       ELSE /\ configure_pin(pin, mode, RelayReg, {})
            /\ RunRelay("configure_gpio")

(* POST /gpio/api/state *)
set_gpio_state(pin, state) ==
    LET v == HW_get_valid_pins(validPins, gpioPins) IN
    /\ gpio_lock = "set_gpio_state"
    /\ IF v.err # "none" \/ pin \notin SeqToSet(v.pins)
          \/ state \notin {LOW, HIGH}
          \/ pin \notin get_configured_pins(pinModes)
          \/ pinModes[pin] # OUT_MODE
       THEN Refused("set_gpio_state", pin, state, v)
       ELSE /\ set_pin_state(pin, state, {})
            /\ RunRelay("set_gpio_state")

(* messageModes of get_gpios_summary_update_message. *)
MessageMode(mode) ==
    IF mode = 1 THEN "HIGH" ELSE IF mode = 0 THEN "LOW" ELSE "UNDEFINED"

(* get_gpios_summary_update_message(): one entry per valid pin. *)
get_gpios_summary_update_message ==
    LET v == HW_get_valid_pins(validPins, gpioPins)
        configured_pins == get_configured_pins(pinModes)
    IN
    IF v.err # "none" THEN [err |-> v.err, vp |-> v.vp, pins |-> <<>>]
    ELSE [err |-> "none", vp |-> v.vp,
          pins |-> [i \in 1..Len(v.pins) |->
                      [number |-> v.pins[i],
                       mode |-> MessageMode(IF v.pins[i] \in configured_pins
                                            THEN pinModes[v.pins[i]] ELSE 0 - 1),
                       state |-> GetPinState(pinModes, outputPinStates, v.vp,
                                             gpioPins, v.pins[i], {}).ret]]]

(* GET /gpio/api/pins *)
get_gpio_pins ==
    LET m == get_gpios_summary_update_message IN
    /\ gpio_lock = "get_gpio_pins"
    /\ last' = [NoCall EXCEPT !.op = "get_gpio_pins",
                              !.err = IF m.err = "none" THEN "none" ELSE "500",
                              !.listing = m.pins]
    /\ validPins' = m.vp
    /\ UNCHANGED <<pinModes, outputPinStates, pinCallbacks, pwmPins, gpioPins,
                   initialized, hw_initialized>>
    /\ gpio_lock' = "free"
    /\ UNCHANGED <<active_connections, sockets, threads, delivered, iter, is_running>>

(* gpio_updates(ws), first part: the connection is entered in
   active_connections. *)
ws_connect(w) ==
    /\ sockets[w].st = "new"
    /\ \A x \in WsIds : x < w => sockets[x].st # "new"
    /\ active_connections' = Append(active_connections, w)
    /\ sockets' = [sockets EXCEPT ![w].st = "registered"]
    /\ UNCHANGED <<gpio_lock, threads, delivered, iter, is_running, last>>
    /\ UNCHANGED managerVars

(* gpio_updates(ws), second part: under gpio_lock the snapshot is built and
   sent; if that raises, the handler ends through cleanup_ws. *)
ws_snapshot(w) ==
    LET m == get_gpios_summary_update_message
        c == cleanup_ws(active_connections, sockets, pinModes, FALSE, w)
    IN
    /\ sockets[w].st = "registered"
    /\ gpio_lock = "free"
    /\ validPins' = m.vp
    /\ IF m.err = "none" /\ sockets[w].alive
       THEN /\ sockets' = [Send(sockets, w, "gpio_update") EXCEPT ![w].st = "streaming"]
            /\ UNCHANGED active_connections
       ELSE /\ sockets' = [c.socks EXCEPT ![w].st = "done"]
            /\ active_connections' = c.conns
    /\ UNCHANGED <<gpio_lock, threads, delivered, iter, is_running, last>>
    /\ UNCHANGED <<pinModes, outputPinStates, pinCallbacks, pwmPins, gpioPins,
                   initialized, hw_initialized>>

(* gpio_updates(ws), end: the client disconnected, receive() returned None
   and the finally clause runs cleanup_ws. *)
ws_disconnect(w) ==
    LET c == cleanup_ws(active_connections, sockets, pinModes, FALSE, w) IN
    /\ sockets[w].st = "streaming"
    /\ gpio_lock = "free"
    /\ sockets' = [c.socks EXCEPT ![w].st = "done", ![w].alive = FALSE]
    /\ active_connections' = c.conns
    /\ UNCHANGED <<gpio_lock, threads, delivered, iter, is_running, last>>
    /\ UNCHANGED managerVars

(* keep_alive(ws_id): the ping of a streaming connection; a failed ping
   ends in cleanup_ws, from the timer's thread. *)
keep_alive(w) ==
    LET c == cleanup_ws(active_connections, sockets, pinModes, FALSE, w) IN
    /\ sockets[w].st = "streaming"
    /\ w \in SeqToSet(active_connections)
    /\ gpio_lock = "free"
    /\ IF sockets[w].alive
       THEN /\ sockets' = Send(sockets, w, "ping")
            /\ UNCHANGED active_connections
       ELSE /\ sockets' = c.socks
            /\ active_connections' = c.conns
    /\ UNCHANGED <<gpio_lock, threads, delivered, iter, is_running, last>>
    /\ UNCHANGED managerVars

(* The client of a connection goes away without the handler noticing yet:
   from now on ws.send raises. *)
client_lost(w) ==
    /\ sockets[w].st \in {"registered", "streaming"}
    /\ sockets[w].alive
    /\ sockets' = [sockets EXCEPT ![w].alive = FALSE]
    /\ UNCHANGED <<active_connections, gpio_lock, threads, delivered, iter, is_running, last>>
    /\ UNCHANGED managerVars

(* The pins the clients of the routes name: the first pin of the board and
   one that is no pin. *)
RoutePins == {rpi3B_pins[1], InvalidPin}

(* The body of a request that holds gpio_lock, up to the release. *)
RequestBody ==
    \/ \E pin \in RoutePins, mode \in ModeInputs : configure_gpio(pin, mode)
    \/ \E pin \in RoutePins, state \in StateInputs : set_gpio_state(pin, state)
    \/ get_gpio_pins

(* The web application: requests, streaming connections and edges.  While a
   request holds the lock and has not run yet, connections still arrive and
   clients still go away. *)
NextWS ==
    \/ Return
    \/ Idle /\ \E op \in RequestOps : acquire(op)
    \/ Idle /\ RequestBody
    \/ Idle /\ \E w \in WsIds : ws_connect(w)
    \/ Idle /\ \E w \in WsIds : ws_snapshot(w)
    \/ Idle /\ \E w \in WsIds : ws_disconnect(w)
    \/ Idle /\ \E w \in WsIds : client_lost(w)
    \/ Idle /\ \E w \in WsIds : keep_alive(w)
    \/ /\ Idle /\ gpio_lock = "free"
       /\ \E pin \in RoutePins, level \in {HIGH, LOW} :
            edge_event(pin, level, {}) /\ RunRelay("free")

SpecWS == Init /\ [][NextWS]_vars

(* The thread of a request that holds the lock keeps running: its body is
   taken once it stays enabled. *)
SpecWSFair == SpecWS /\ WF_vars(Idle /\ RequestBody)

-----------------------------------------------------------------------------
(* input_callback in the driver's edge thread, one step of its for loop at *)
(* a time, while the application thread calls the manager.                 *)

(* What a manager call of the other thread does to the running loop: the
   loop iterates the set object self._pin_callbacks[pin]; watch_pin adds to
   that object and clear_pin empties it in place, cleanup empties the dict
   and leaves the object as it is. *)
Track(it, cbs) ==
    IF ~it.active \/ it.detached THEN it
    ELSE IF it.pin \notin DOMAIN cbs
    THEN [it EXCEPT !.detached = TRUE, !.stable = {}]
    ELSE [it EXCEPT !.set = cbs[it.pin], !.stable = @ \cap cbs[it.pin]]

(* gpio_callback and the head of the for statement: the driver reports an
   edge, the adapter reads the level and the loop's iterator is made. *)
d_begin(pin, level) ==
    /\ ~iter.active /\ iter.pin = None
    /\ pin \in DOMAIN gpioPins
    /\ gpioPins[pin].mode = IN_MODE
    /\ gpioPins[pin].events > 0
    /\ gpioPins[pin].value # level
    /\ LET gp1 == [gpioPins EXCEPT ![pin].value = level]
           r == HW_get_pin_state(gp1, validPins, pin, {})
       IN
       /\ gpioPins' = gp1
       /\ validPins' = r.vp
       /\ iter' = IF r.err # "none"
                  THEN [NoIter EXCEPT !.pin = pin, !.err = r.err]
                  ELSE IF pin \notin DOMAIN pinCallbacks
                  THEN [NoIter EXCEPT !.pin = pin, !.state = r.state, !.err = "KeyError"]
                  ELSE [NoIter EXCEPT !.active = TRUE, !.pin = pin, !.state = r.state,
                                      !.used = Cardinality(pinCallbacks[pin]),
                                      !.set = pinCallbacks[pin],
                                      !.stable = pinCallbacks[pin]]
    /\ UNCHANGED <<pinModes, outputPinStates, pinCallbacks, pwmPins, initialized,
                   hw_initialized, last>>
    /\ UNCHANGED <<active_connections, gpio_lock, sockets, threads, delivered, is_running>>

(* The set iterator's check at each step: the set's size differs from the
   size at the loop's start. *)
SetChanged(it) == Cardinality(it.set) # it.used

(* One step of the for loop: the iterator raises RuntimeError when the set
   changed size, which no try statement of input_callback catches; else the
   next registration's on_change runs inside its try/except, or the loop
   ends. *)
d_next ==
    /\ iter.active
    /\ iter' = IF SetChanged(iter)
               THEN [iter EXCEPT !.active = FALSE, !.err = "RuntimeError"]
               ELSE IF iter.set \subseteq iter.visited
               THEN [iter EXCEPT !.active = FALSE]
               ELSE [iter EXCEPT !.visited = @ \cup {SetOrder(iter.set \ iter.visited)[1]}]
    /\ UNCHANGED <<last, active_connections, gpio_lock, sockets, threads, delivered,
                   is_running>>
    /\ UNCHANGED managerVars

(* The driver's thread is ready for the next edge. *)
d_return ==
    /\ ~iter.active /\ iter.pin # None
    /\ iter' = NoIter
    /\ UNCHANGED <<last, active_connections, gpio_lock, sockets, threads, delivered,
                   is_running>>
    /\ UNCHANGED managerVars

(* A manager call of the application thread, at any point of the loop. *)
Tracked(A) ==
    /\ Idle
    /\ A
    /\ iter' = Track(iter, pinCallbacks')
    /\ UNCHANGED <<active_connections, gpio_lock, sockets, threads, delivered, is_running>>

(* The pins the application configures as inputs: pins of the board. *)
DispatchPins == CallerPins \ {InvalidPin}

(* An application thread that configures, watches and clears input pins
   while the driver's thread dispatches edges. *)
NextDispatch ==
    \/ Return
    \/ \E pin \in DispatchPins, reg \in Registrations :
            Tracked(configure_pin(pin, IN_MODE, reg, {}))
    \/ \E pin \in DispatchPins, reg \in Registrations : Tracked(watch_pin(pin, reg, {}))
    \/ \E pin \in DispatchPins : Tracked(clear_pin(pin, {}))
    \/ Tracked(cleanup({}))
    \/ \E pin \in DispatchPins, level \in {HIGH, LOW} : d_begin(pin, level)
    \/ d_next
    \/ d_return

SpecDispatch == Init /\ [][NextDispatch]_vars

-----------------------------------------------------------------------------
(* BirdControl: the main thread (t1) constructs BirdControl while the      *)
(* driver's callback thread (t2) reports edges of the optical gates.  Each *)
(* manager call is one step.                                               *)

(* A driver whose pins are the four pins of PIN_CONFIG. *)
InitBird ==
    /\ gpioPins = [p \in BirdPins |-> MockPin(IN_MODE, LOW)]
    /\ validPins = [cached |-> TRUE, pins |-> SortedSeq(BirdPins)]
    /\ pinModes = [p \in PinUniverse |-> None]
    /\ outputPinStates = [p \in PinUniverse |-> None]
    /\ pinCallbacks = [p \in BirdPins |-> {}]
    /\ pwmPins = <<>>
    /\ initialized = TRUE
    /\ hw_initialized = TRUE
    /\ last = NoCall
    /\ InitLayer

(* What a step of BirdControl leaves alone besides the manager. *)
BirdFrame == UNCHANGED <<active_connections, gpio_lock, sockets, delivered, iter>>

(* MotorController.__init__: GPIOManager.configure_pin(pin, OUT); an
   exception leaves BirdControl(). *)
b_configure_out(pin, from, to) ==
    /\ threads["t1"].pc = from
    /\ configure_pin(pin, OUT_MODE, CallbackInfo(NoCallback, NoCallback), {})
    /\ threads' = [threads EXCEPT !["t1"].pc = IF last'.err = "none" THEN to
                                                ELSE "m_failed"]
    /\ BirdFrame /\ UNCHANGED is_running

(* MotorController.__init__: GPIOManager.setup_pwm(pin, current_freq). *)
b_setup_pwm(pin, from, to) ==
    /\ threads["t1"].pc = from
    /\ setup_pwm(pin, INITIAL_FREQUENCY)
    /\ threads' = [threads EXCEPT !["t1"].pc = IF last'.err = "none" THEN to
                                                ELSE "m_failed"]
    /\ BirdFrame /\ UNCHANGED is_running

(* OpticalGates.__init__: configure_pin(gate, IN, callback=gate_callback).
   The pin is set up with edge detection and the callback registered; then
   configure_pin makes the initial call of the callback in this thread. *)
b_configure_gate(pin, from) ==
    /\ threads["t1"].pc = from
    /\ configure_pin(pin, IN_MODE, GateReg, {})
    /\ threads' = [threads EXCEPT !["t1"] =
                      IF last'.err = "none"
                      THEN [pc |-> "cb", pin |-> pin, state |-> last'.calls[1].state,
                            err |-> "none"]
                      ELSE [@ EXCEPT !.pc = "m_failed"]]
    /\ BirdFrame /\ UNCHANGED is_running

(* The driver reports an edge of a gate: gpio_callback reads the level and
   input_callback calls the registered callback in the driver's thread. *)
b_edge(pin, level) ==
    /\ threads["t2"].pc = "idle"
    /\ pin \in DOMAIN gpioPins
    /\ gpioPins[pin].mode = IN_MODE
    /\ gpioPins[pin].events > 0
    /\ gpioPins[pin].value # level
    /\ LET gp1 == [gpioPins EXCEPT ![pin].value = level]
           r == HW_get_pin_state(gp1, validPins, pin, {})
       IN
       /\ gpioPins' = gp1
       /\ validPins' = r.vp
       /\ threads' = IF r.err = "none" /\ pin \in DOMAIN pinCallbacks
                        /\ GateReg \in pinCallbacks[pin]
                     THEN [threads EXCEPT !["t2"] = [pc |-> "cb", pin |-> pin,
                                                     state |-> r.state, err |-> "none"]]
                     ELSE threads
    /\ UNCHANGED <<pinModes, outputPinStates, pinCallbacks, pwmPins, initialized,
                   hw_initialized, last>>
    /\ BirdFrame /\ UNCHANGED is_running

(* if pin == self.start_pin: if not self.is_running: *)
StartsRun(pin, running) == pin = OPTICAL_GATE_1_PIN /\ ~running

(* callback(pin, state): the if/elif that picks the branch. *)
b_callback(t) ==
    /\ threads[t].pc = "cb"
    /\ threads' = [threads EXCEPT ![t].pc =
                      IF StartsRun(threads[t].pin, is_running) THEN "turn_on"
                      ELSE IF threads[t].pin = OPTICAL_GATE_1_PIN THEN "ret"
                      ELSE IF threads[t].pin = OPTICAL_GATE_2_PIN THEN "turn_off"
                      ELSE "ret"]
    /\ UNCHANGED <<last, is_running>> /\ BirdFrame
    /\ UNCHANGED managerVars

(* turn_on: start_pwm(motor1_pin, duty_cycle); an exception skips the
   second motor and is logged. *)
b_turn_on(t) ==
    /\ threads[t].pc = "turn_on"
    /\ start_pwm(MOTOR_1_PIN, INITIAL_DUTY_CYCLE)
    /\ threads' = [threads EXCEPT ![t].pc = IF last'.err = "none" THEN "turn_on2"
                                            ELSE "sleep"]
    /\ BirdFrame /\ UNCHANGED is_running

(* turn_on: start_pwm(motor2_pin, duty_cycle) *)
b_turn_on2(t) ==
    /\ threads[t].pc = "turn_on2"
    /\ start_pwm(MOTOR_2_PIN, INITIAL_DUTY_CYCLE)
    /\ threads' = [threads EXCEPT ![t].pc = "sleep"]
    /\ BirdFrame /\ UNCHANGED is_running

(* time.sleep(self.timeout) returns. *)
b_sleep(t) ==
    /\ threads[t].pc = "sleep"
    /\ threads' = [threads EXCEPT ![t].pc = "turn_off"]
    /\ UNCHANGED <<last, is_running>> /\ BirdFrame
    /\ UNCHANGED managerVars

(* turn_off: stop_pwm(motor1_pin); an exception skips the second motor. *)
b_turn_off(t) ==
    /\ threads[t].pc = "turn_off"
    /\ stop_pwm(MOTOR_1_PIN)
    /\ threads' = [threads EXCEPT ![t].pc = IF last'.err = "none" THEN "turn_off2"
                                            ELSE "flag"]
    /\ BirdFrame /\ UNCHANGED is_running

(* turn_off: stop_pwm(motor2_pin) *)
b_turn_off2(t) ==
    /\ threads[t].pc = "turn_off2"
    /\ stop_pwm(MOTOR_2_PIN)
    /\ threads' = [threads EXCEPT ![t].pc = "flag"]
    /\ BirdFrame /\ UNCHANGED is_running

(* self.is_running = False *)
b_flag(t) ==
    /\ threads[t].pc = "flag"
    /\ is_running' = FALSE
    /\ threads' = [threads EXCEPT ![t].pc = "ret"]
    /\ UNCHANGED last /\ BirdFrame
    /\ UNCHANGED managerVars

(* The callback returns: the main thread goes on in OpticalGates.__init__,
   the driver's thread waits for the next edge. *)
b_return(t) ==
    /\ threads[t].pc = "ret"
    /\ threads' = [threads EXCEPT ![t] =
                      [pc |-> IF t = "t2" THEN "idle"
                              ELSE IF threads[t].pin = OPTICAL_GATE_1_PIN THEN "m_gate2"
                              ELSE "m_done",
                       pin |-> None, state |-> None, err |-> "none"]]
    /\ UNCHANGED <<last, is_running>> /\ BirdFrame
    /\ UNCHANGED managerVars

(* BirdControl() in the main thread and gate edges in the driver's thread. *)
NextBird ==
    \/ b_configure_out(MOTOR_1_PIN, "idle", "m_out2")
    \/ b_configure_out(MOTOR_2_PIN, "m_out2", "m_pwm1")
    \/ b_setup_pwm(MOTOR_1_PIN, "m_pwm1", "m_pwm2")
    \/ b_setup_pwm(MOTOR_2_PIN, "m_pwm2", "m_gate1")
    \/ b_configure_gate(OPTICAL_GATE_1_PIN, "m_gate1")
    \/ b_configure_gate(OPTICAL_GATE_2_PIN, "m_gate2")
    \/ \E pin \in {OPTICAL_GATE_1_PIN, OPTICAL_GATE_2_PIN}, level \in {HIGH, LOW} :
            b_edge(pin, level)
    \/ \E t \in ThreadIds : b_callback(t)
    \/ \E t \in ThreadIds : b_turn_on(t)
    \/ \E t \in ThreadIds : b_turn_on2(t)
    \/ \E t \in ThreadIds : b_sleep(t)
    \/ \E t \in ThreadIds : b_turn_off(t)
    \/ \E t \in ThreadIds : b_turn_off2(t)
    \/ \E t \in ThreadIds : b_flag(t)
    \/ \E t \in ThreadIds : b_return(t)

SpecBird == InitBird /\ [][NextBird]_vars

-----------------------------------------------------------------------------
(* Concurrent POST /gpio/api/configure requests, one server thread each.   *)
(* A thread's record holds the pin and the mode of its request and, once   *)
(* answered, the status of the response.                                   *)

(* The status of the response to the request recorded in l: 200, 400 for a
   refused request or a ValueError, 500 for any other exception. *)
Status(l) == IF l.err = "none" THEN "200"
             ELSE IF l.err \in {"400", "ValueError"} THEN "400" ELSE "500"

(* A request arrives: its thread reaches `with gpio_lock`. *)
r_post(t, pin, mode) ==
    /\ threads[t].pc = "idle"
    /\ threads' = [threads EXCEPT ![t] = [pc |-> "wait", pin |-> pin, state |-> mode,
                                          err |-> "none"]]
    /\ UNCHANGED <<active_connections, gpio_lock, sockets, delivered, iter, is_running,
                   last>>
    /\ UNCHANGED managerVars

(* The thread enters the with block. *)
r_acquire(t) ==
    /\ threads[t].pc = "wait"
    /\ LockAvailable(gpio_lock)
    /\ gpio_lock' = "configure_gpio"
    /\ threads' = [threads EXCEPT ![t].pc = "locked"]
    /\ UNCHANGED <<active_connections, sockets, delivered, iter, is_running, last>>
    /\ UNCHANGED managerVars

(* The body of the with block, run by a thread inside it; the lock is
   released as the block is left. *)
r_body(t) ==
    /\ threads[t].pc = "locked"
    /\ configure_gpio(threads[t].pin, threads[t].state)

(* The response leaves the server: `last` is the refusal of the route or
   the manager call the body made. *)
r_respond(t) ==
    /\ threads[t].pc = "locked"
    /\ last.op \in {"configure_gpio", "configure_pin"}
    /\ last.pin = threads[t].pin /\ last.arg = threads[t].state
    /\ threads' = [threads EXCEPT ![t].pc = "done", ![t].err = Status(last)]
    /\ last' = NoCall
    /\ UNCHANGED <<active_connections, gpio_lock, sockets, delivered, iter, is_running>>
    /\ UNCHANGED managerVars

(* The client has its response; the thread serves the next request. *)
r_return(t) ==
    /\ threads[t].pc = "done"
    /\ threads' = [threads EXCEPT ![t] = [pc |-> "idle", pin |-> None, state |-> None,
                                          err |-> "none"]]
    /\ UNCHANGED <<active_connections, gpio_lock, sockets, delivered, iter, is_running,
                   last>>
    /\ UNCHANGED managerVars

(* Clients that post configure requests at any time. *)
NextConfigure ==
    \/ \E t \in ThreadIds, pin \in RoutePins, mode \in ModeInputs : r_post(t, pin, mode)
    \/ Idle /\ \E t \in ThreadIds : r_acquire(t)
    \/ Idle /\ \E t \in ThreadIds : r_body(t)
    \/ \E t \in ThreadIds : r_respond(t)
    \/ \E t \in ThreadIds : r_return(t)

SpecConfigure == Init /\ [][NextConfigure]_vars

-----------------------------------------------------------------------------
(* Threads that call set_pin_state of the one gpio_manager directly, as the *)
(* motor controller and the routes do.  The manager has no lock of its own: *)
(* a call advances statement by statement and another thread's statements  *)
(* run in between.                                                         *)

(* The callbacks invoked in a call log get its states delivered, in order. *)
RECURSIVE Delivered(_, _)
Delivered(d, calls) ==
    IF calls = <<>> THEN d
    ELSE Delivered(IF Head(calls).fn \in DOMAIN d
                   THEN [d EXCEPT ![Head(calls).fn] = Head(calls).state] ELSE d,
                   Tail(calls))

(* set_pin_state, entry: the mode checks. *)
t_call(t, pin, state) ==
    /\ threads[t].pc = "idle"
    /\ threads' = [threads EXCEPT ![t] =
                      [pc |-> IF SetStateGuard(pinModes[pin]).err = "none"
                              THEN "write" ELSE "done",
                       pin |-> pin, state |-> state,
                       err |-> SetStateGuard(pinModes[pin]).err]]
    /\ UNCHANGED <<active_connections, gpio_lock, sockets, delivered, iter, is_running, last>>
    /\ UNCHANGED managerVars

(* HW.set_output_state(pin, state) *)
t_write(t) ==
    LET w == HW_set_output_state(gpioPins, validPins, threads[t].pin,
                                 threads[t].state, {})
    IN
    /\ threads[t].pc = "write"
    /\ gpioPins' = w.gp
    /\ validPins' = w.vp
    /\ threads' = [threads EXCEPT ![t].pc = IF w.err = "none" THEN "cache" ELSE "done",
                                  ![t].err = IF w.err = "none" THEN "none"
                                             ELSE "RuntimeError"]
    /\ UNCHANGED <<active_connections, gpio_lock, sockets, delivered, iter, is_running, last>>
    /\ UNCHANGED <<pinModes, outputPinStates, pinCallbacks, pwmPins, initialized, hw_initialized>>

(* self._output_pin_states[pin] = state *)
t_cache(t) ==
    /\ threads[t].pc = "cache"
    /\ outputPinStates' = CacheAfterWrite(outputPinStates, threads[t].pin,
                                          threads[t].state, "none")
    /\ threads' = [threads EXCEPT ![t].pc = "dispatch"]
    /\ UNCHANGED <<active_connections, gpio_lock, sockets, delivered, iter, is_running, last>>
    /\ UNCHANGED <<pinModes, pinCallbacks, pwmPins, validPins, gpioPins, initialized, hw_initialized>>

(* The callback loop, and the return. *)
t_dispatch(t) ==
    LET keyError == threads[t].pin \notin DOMAIN pinCallbacks
        d == DispatchChange(pinCallbacks[threads[t].pin], threads[t].pin,
                            threads[t].state)
    IN
    /\ threads[t].pc = "dispatch"
    /\ delivered' = IF keyError THEN delivered ELSE Delivered(delivered, d.calls)
    /\ threads' = [threads EXCEPT ![t].pc = "done",
                                  ![t].err = IF keyError THEN "RuntimeError" ELSE "none"]
    /\ UNCHANGED <<active_connections, gpio_lock, sockets, iter, is_running, last>>
    /\ UNCHANGED managerVars

(* The thread takes the result and is ready for its next call. *)
t_return(t) ==
    /\ threads[t].pc = "done"
    /\ threads' = [threads EXCEPT ![t] = [pc |-> "idle", pin |-> None, state |-> None,
                                          err |-> "none"]]
    /\ UNCHANGED <<active_connections, gpio_lock, sockets, delivered, iter, is_running, last>>
    /\ UNCHANGED managerVars

(* Pins are configured by one caller; two threads set their states. *)
NextThreads ==
    \/ Return
    \/ /\ Idle
       /\ \E pin \in RoutePins, reg \in RegInputs :
            /\ configure_pin(pin, OUT_MODE, reg, {})
            /\ delivered' = Delivered(delivered, last'.calls)
            /\ UNCHANGED <<active_connections, gpio_lock, sockets, threads, iter, is_running>>
    \/ \E t \in ThreadIds, pin \in RoutePins, state \in {HIGH, LOW} :
            t_call(t, pin, state)
    \/ \E t \in ThreadIds : t_write(t)
    \/ \E t \in ThreadIds : t_cache(t)
    \/ \E t \in ThreadIds : t_dispatch(t)
    \/ \E t \in ThreadIds : t_return(t)

SpecThreads == Init /\ [][NextThreads]_vars

(* GPIOManager.__init__: runs once; it asks the adapter for the valid pins
   and gives each of them no mode and an empty callback set.  If
   get_valid_pins raises, the exception leaves __init__ and _initialized
   stays False. *)
GPIOManager_init ==
    LET base == [NoCall EXCEPT !.op = "GPIOManager"]
        v == HW_get_valid_pins(validPins, gpioPins)
    IN
    /\ UNCHANGED <<outputPinStates, pwmPins, gpioPins, hw_initialized>>
    /\ IF initialized
       THEN /\ last' = base
            /\ UNCHANGED <<pinModes, pinCallbacks, validPins, initialized>>
       ELSE IF v.err # "none"
       THEN /\ last' = [base EXCEPT !.err = v.err, !.msg = "No valid pins found",
                                     !.scans = v.scans]
            /\ validPins' = v.vp
            /\ UNCHANGED <<pinModes, pinCallbacks, initialized>>
       ELSE /\ last' = [base EXCEPT !.pins = v.pins, !.scans = v.scans]
            /\ validPins' = v.vp
            /\ pinModes' = [p \in PinUniverse |-> None]
            /\ pinCallbacks' = [p \in SeqToSet(v.pins) |-> {}]
            /\ initialized' = TRUE

(* A direct call of the adapter's setup_input_pin, as the adapter's tests
   make it. *)
setup_input_pin(pin, pull_up_down, edge_detection, callback, faults) ==
    LET hw == HW_setup_input_pin(gpioPins, pin, pull_up_down, edge_detection,
                                 callback, faults)
    IN
    /\ gpioPins' = hw.gp
    /\ last' = [NoCall EXCEPT !.op = "setup_input_pin", !.pin = pin,
                              !.arg = pull_up_down, !.edge = edge_detection,
                              !.cb = callback, !.faults = faults, !.err = hw.err,
                              !.setups = hw.setups, !.events = hw.events]
    /\ UNCHANGED <<pinModes, outputPinStates, pinCallbacks, pwmPins, validPins,
                   initialized, hw_initialized>>

(* The functions a pin of the driver can have before the program starts. *)
PinFunctions == {IN_MODE, OUT_MODE, SERIAL}

(* The adapter over a driver in any starting state, and no manager yet. *)
InitHW ==
    /\ \E S \in SUBSET MockPins :
          gpioPins \in [S -> {MockPin(f, LOW) : f \in PinFunctions}]
    /\ validPins = [cached |-> FALSE, pins |-> <<>>]
    /\ pinModes = [p \in PinUniverse |-> None]
    /\ outputPinStates = [p \in PinUniverse |-> None]
    /\ pinCallbacks = [p \in {} |-> {}]
    /\ pwmPins = <<>>
    /\ initialized = FALSE
    /\ hw_initialized = TRUE
    /\ last = NoCall
    /\ InitLayer

NextHW ==
    \/ Return
    \/ /\ Idle /\ UNCHANGED layerVars
       /\ GPIOManager_init
    \/ /\ Idle /\ UNCHANGED layerVars
       /\ get_valid_pins
    \/ /\ Idle /\ UNCHANGED layerVars
       /\ \E pin \in MockPins, pull_up_down \in {PUD_OFF, PUD_UP, 0},
             edge_detection \in BOOLEAN, callback \in {NoCallback, "cb1"} :
          \E faults \in SUBSET {"setup"} :
            setup_input_pin(pin, pull_up_down, edge_detection, callback, faults)

SpecHW == InitHW /\ [][NextHW]_vars

(* GPIOHardware(): __new__ hands out the one instance; __init__ returns at
   once while _initialized is set, and otherwise sets it, calls
   gpio.setmode(BCM) and starts with no cached pin list.  setmodes counts
   the setmode calls of the construction. *)
GPIOHardware_init ==
    /\ hw_initialized' = TRUE
    /\ validPins' = IF hw_initialized THEN validPins
                    ELSE [cached |-> FALSE, pins |-> <<>>]
    /\ last' = [NoCall EXCEPT !.op = "GPIOHardware",
                              !.setmodes = IF hw_initialized THEN 0 ELSE 1]
    /\ UNCHANGED <<pinModes, outputPinStates, pinCallbacks, pwmPins, gpioPins,
                   initialized>>

(* cleanup() of the adapter: the driver's cleanup() drops every pin, and the
   adapter clears _initialized and its cached pin list. *)
HW_cleanup ==
    /\ gpioPins' = [q \in {} |-> MockPin(IN_MODE, LOW)]
    /\ hw_initialized' = FALSE
    /\ validPins' = [cached |-> FALSE, pins |-> <<>>]
    /\ last' = [NoCall EXCEPT !.op = "HW.cleanup"]
    /\ UNCHANGED <<pinModes, outputPinStates, pinCallbacks, pwmPins, initialized>>

(* The adapter on its own, as its tests use it: constructions, pin
   discovery, pin setup and cleanup in any order. *)
NextAdapter ==
    \/ Return
    \/ /\ Idle /\ UNCHANGED layerVars
       /\ GPIOHardware_init
    \/ /\ Idle /\ UNCHANGED layerVars
       /\ HW_cleanup
    \/ /\ Idle /\ UNCHANGED layerVars
       /\ get_valid_pins
    \/ /\ Idle /\ UNCHANGED layerVars
       /\ \E pin \in MockPins :
            setup_input_pin(pin, PUD_OFF, FALSE, NoCallback, {})

SpecAdapter == InitHW /\ [][NextAdapter]_vars

-----------------------------------------------------------------------------
(* What a caller sees in the current state. *)

(* The pins get_valid_pins() returns now; empty if it raises. *)
ValidNow ==
    LET v == HW_get_valid_pins(validPins, gpioPins) IN
    IF v.err = "none" THEN SeqToSet(v.pins) ELSE {}

(* What get_pin_state(pin) returns now, under the given driver faults. *)
ReadNow(pin, faults) ==
    GetPinState(pinModes, outputPinStates, validPins, gpioPins, pin, faults)

(* How often fn(pin, state) occurs in a call log. *)
Count(calls, c) == Cardinality({i \in 1..Len(calls) : calls[i] = c})

-----------------------------------------------------------------------------
(* C1: for a valid pin p, right after a successful configure_pin(p, OUT)
   get_pin_state(p) returns HIGH, and get_pin_state on an Output pin returns
   the cached value and makes no adapter read, whatever the driver would do. *)
C1_OutputReadsHighFromCache ==
    /\ (/\ last.op = "configure_pin" /\ last.err = "none"
        /\ last.arg = OUT_MODE /\ last.pin \in ValidNow)
       => \A faults \in SUBSET FaultKinds :
             LET g == ReadNow(last.pin, faults) IN
             g.err = "none" /\ g.ret = HIGH /\ g.reads = 0
    /\ (/\ last.op = "get_pin_state" /\ last.pin \in ValidNow
        /\ pinModes[last.pin] = OUT_MODE)
       => /\ last.err = "none"
          /\ last.ret = outputPinStates[last.pin]
          /\ last.reads = 0

C1_Witness ==
    /\ last.op = "configure_pin" /\ last.err = "none"
    /\ last.arg = OUT_MODE /\ last.pin \in ValidNow
    /\ ReadNow(last.pin, {}).ret = HIGH

(* C2: after a successful set_pin_state(p, s) on an Output pin, s is HIGH or
   LOW, get_pin_state(p) returns s, the driver pin holds s after exactly one
   write; and a valid Output pin never reads back UNDEFINED. *)
C2_SetReadsBack ==
    /\ (last.op = "set_pin_state" /\ last.err = "none")
       => /\ last.arg \in {HIGH, LOW}
          /\ pinModes[last.pin] = OUT_MODE
          /\ ReadNow(last.pin, {}).ret = last.arg
          /\ last.writes = 1
          /\ last.pin \in DOMAIN gpioPins
          /\ gpioPins[last.pin].value = last.arg
    /\ \A p \in ValidNow :
          pinModes[p] = OUT_MODE => ReadNow(p, {}).ret \in {HIGH, LOW}

C2_Witness ==
    /\ last.op = "set_pin_state" /\ last.err = "none" /\ last.arg = LOW
    /\ ReadNow(last.pin, {}).ret = LOW

(* C3: set_pin_state on a pin with no mode raises RuntimeError (not
   configured), on an Input pin ValueError (not an output); in both cases no
   adapter write happens, no pin's cached state changes and no callback
   runs. *)
C3_SetOnNonOutputRejected ==
    [][(last'.op = "set_pin_state" /\ pinModes[last'.pin] # OUT_MODE)
       => /\ pinModes[last'.pin] = None
               => last'.err = "RuntimeError" /\ last'.msg = "not configured"
          /\ pinModes[last'.pin] = IN_MODE
               => last'.err = "ValueError" /\ last'.msg = "not configured as output"
          /\ last'.writes = 0
          /\ last'.calls = <<>>
          /\ outputPinStates' = outputPinStates
          /\ gpioPins' = gpioPins]_vars

C3_Witness ==
    /\ last.op = "set_pin_state" /\ pinModes[last.pin] = IN_MODE
    /\ last.err = "ValueError" /\ last.writes = 0

(* C4: when the adapter write of set_pin_state(p, s), s HIGH or LOW, on an
   Output pin raises, the call raises RuntimeError (hardware failure), the
   cache is what it was and no callback runs. *)
C4_FailedWriteKeepsCache ==
    [][(/\ last'.op = "set_pin_state" /\ pinModes[last'.pin] = OUT_MODE
        /\ last'.arg \in {HIGH, LOW} /\ last'.hwErr # "none")
       => /\ last'.err = "RuntimeError"
          /\ last'.msg = "Failed to set pin state"
          /\ outputPinStates' = outputPinStates
          /\ last'.calls = <<>>]_vars

C4_Witness ==
    /\ last.op = "set_pin_state" /\ pinModes[last.pin] = OUT_MODE
    /\ last.hwErr = "RuntimeError" /\ last.arg \in {HIGH, LOW}
    /\ outputPinStates[last.pin] # last.arg
    /\ ChangeFnsOn(last.pin) # {}

(* C5 as claimed: set_pin_state(p, s) on an Output pin with s neither HIGH
   nor LOW raises ValueError (not the RuntimeError of a hardware failure),
   leaves the cache unchanged and runs no callback. *)
C5_InvalidStateIsValueError ==
    [][(/\ last'.op = "set_pin_state" /\ pinModes[last'.pin] = OUT_MODE
        /\ last'.arg \notin {HIGH, LOW})
       => /\ last'.err = "ValueError"
          /\ outputPinStates' = outputPinStates
          /\ last'.calls = <<>>]_vars

(* C6 as claimed: get_pin_state never raises; it returns UNDEFINED for a pin
   outside the valid set, an unconfigured pin and an Input pin whose read
   fails, and HIGH or LOW otherwise. *)
C6_GetPinStateNeverRaises ==
    last.op = "get_pin_state"
    => /\ last.err = "none"
       /\ IF \/ last.pin \notin ValidNow
             \/ pinModes[last.pin] = None
             \/ (pinModes[last.pin] = IN_MODE /\ "input" \in last.faults)
          THEN last.ret = UNDEFINED
          ELSE last.ret \in {HIGH, LOW}

(* C7 as claimed: configure_pin with a pin outside the valid set or a mode
   other than IN and OUT raises ValueError, makes no adapter setup call,
   leaves modes, cache and callbacks unchanged and does not invoke the
   callback. *)
C7_InvalidConfigureRejected ==
    [][(/\ last'.op = "configure_pin"
        /\ (last'.pin \notin ValidNow \/ last'.arg \notin {IN_MODE, OUT_MODE}))
       => /\ last'.err = "ValueError"
          /\ last'.setups = 0
          /\ last'.calls = <<>>
          /\ UNCHANGED <<pinModes, outputPinStates, pinCallbacks>>]_vars

(* C8 as claimed: configure_pin on an already configured valid pin succeeds
   and leaves the pin in the requested mode, with the callbacks of the
   previous configuration gone. *)
C8_ReconfigureAllowed ==
    [][(/\ last'.op = "configure_pin"
        /\ last'.pin \in ValidNow
        /\ pinModes[last'.pin] \in {IN_MODE, OUT_MODE}
        /\ last'.arg \in {IN_MODE, OUT_MODE}
        /\ last'.arg # pinModes[last'.pin]
        /\ last'.faults = {})
       => /\ last'.err = "none"
          /\ pinModes'[last'.pin] = last'.arg
          /\ last'.pin \in DOMAIN pinCallbacks'
          /\ \A r \in pinCallbacks'[last'.pin] : r.on_change = last'.cb]_vars

(* C9: a successful configure_pin(p, IN or OUT, callback) has the callback
   registered on p and has invoked it exactly once, with p and the state
   get_pin_state gives once the mode (and the cache) is set: HIGH for Output,
   the driver's level for Input (UNDEFINED if that read fails). *)
C9_InitialCallbackOnce ==
    (/\ last.op = "configure_pin" /\ last.err = "none"
     /\ last.cb # NoCallback /\ last.arg \in {IN_MODE, OUT_MODE})
    => /\ last.pin \in DOMAIN pinCallbacks
       /\ \E r \in pinCallbacks[last.pin] : r.on_change = last.cb
       /\ pinModes[last.pin] = last.arg
       /\ Len(last.calls) = 1
       /\ last.calls[1].fn = last.cb
       /\ last.calls[1].pin = last.pin
       /\ last.arg = OUT_MODE
            => last.calls[1].state = HIGH /\ outputPinStates[last.pin] = HIGH
       /\ last.arg = IN_MODE
            => last.calls[1].state =
                  IF "input" \in last.faults THEN UNDEFINED
                  ELSE IF gpioPins[last.pin].value # 0 THEN HIGH ELSE LOW

C9_Witness ==
    /\ last.op = "configure_pin" /\ last.err = "none"
    /\ last.arg = OUT_MODE /\ last.cb = "cb2"
    /\ last.calls = <<Call("cb2", last.pin, HIGH)>>
    /\ last.raised = {"cb2"}

(* C10: with two distinct callbacks on an Output pin, a set_pin_state(p, s)
   whose adapter write succeeded invokes each of them exactly once with
   (p, s) and nothing else, and succeeds, also when one of them raises. *)
C10_BothCallbacksOnce ==
    (/\ last.op = "set_pin_state" /\ last.writes = 1
     /\ last.pin \in DOMAIN pinCallbacks
     /\ Cardinality(ChangeFnsOn(last.pin)) = 2)
    => /\ last.err = "none"
       /\ Len(last.calls) = 2
       /\ \A fn \in ChangeFnsOn(last.pin) :
             Count(last.calls, Call(fn, last.pin, last.arg)) = 1

C10_Witness ==
    /\ last.op = "set_pin_state" /\ last.err = "none"
    /\ Len(last.calls) = 2
    /\ last.raised # {}
    /\ \E i \in 1..2 : last.calls[i].fn \notin last.raised

(* C11: in a set_pin_state(p, s) call that invokes callbacks, the adapter
   write and the cache update precede every callback: each callback is handed
   s, a get_pin_state(p) made from inside it returns s, and the driver pin
   already holds s. *)
C11_WriteAndCacheBeforeCallbacks ==
    (last.op = "set_pin_state" /\ last.calls # <<>>)
    => /\ last.writes = 1
       /\ outputPinStates[last.pin] = last.arg
       /\ Len(last.seen) = Len(last.calls)
       /\ \A i \in 1..Len(last.calls) :
             /\ last.calls[i].state = last.arg
             /\ last.seen[i].state = last.arg
             /\ last.seen[i].level = last.arg

C11_Witness ==
    /\ last.op = "set_pin_state" /\ last.arg = LOW
    /\ Len(last.calls) = 2
    /\ \A i \in 1..2 : last.seen[i] = [state |-> LOW, level |-> LOW]

(* C12 as claimed: clear_pin(p) on a valid pin invokes every on_clear
   registered on p exactly once, completes without error and leaves p with no
   mode, no callbacks and no cached state; and a configure_pin on a valid
   pin without a mode succeeds and records the requested mode. *)
C12_ClearPinCompletes ==
    [][/\ (last'.op = "clear_pin" /\ last'.pin \in ValidNow)
          => /\ last'.err = "none"
             /\ \A fn \in ClearFnsOn(last'.pin) :
                   Cardinality({i \in 1..Len(last'.calls) :
                                  last'.calls[i].fn = fn
                                  /\ last'.calls[i].pin = last'.pin}) = 1
             /\ pinModes'[last'.pin] = None
             /\ pinCallbacks'[last'.pin] = {}
             /\ outputPinStates'[last'.pin] = None
       /\ (/\ last'.op = "configure_pin" /\ last'.pin \in ValidNow
           /\ pinModes[last'.pin] = None /\ last'.faults = {}
           /\ last'.arg \in {IN_MODE, OUT_MODE})
          => /\ last'.err = "none"
             /\ pinModes'[last'.pin] = last'.arg]_vars

(* How often the callable fn was invoked for pin in a call log. *)
Runs(calls, fn, pin) ==
    Cardinality({i \in 1..Len(calls) : calls[i].fn = fn /\ calls[i].pin = pin})

(* C13: an on_clear is invoked only by clear_pin and cleanup, only for a
   registration that is in its pin's set, once, and the call that invokes it
   removes the registration, so no later call can invoke it again; and every
   clear_pin(p) and every cleanup, failing or not, invokes the on_clear of
   each registration on p (of each registration at all) exactly once. *)
C13_OnClearExactlyOnce ==
    [][/\ \A i \in 1..Len(last'.calls) :
             last'.calls[i].fn \in OnClearFns
             => /\ last'.op \in {"clear_pin", "cleanup"}
                /\ last'.calls[i].fn \in ClearFnsOn(last'.calls[i].pin)
                /\ Runs(last'.calls, last'.calls[i].fn, last'.calls[i].pin) = 1
                /\ \/ last'.calls[i].pin \notin DOMAIN pinCallbacks'
                   \/ \A r \in pinCallbacks'[last'.calls[i].pin] :
                         r.on_clear # last'.calls[i].fn
       /\ last'.op = "clear_pin"
             => \A fn \in ClearFnsOn(last'.pin) : Runs(last'.calls, fn, last'.pin) = 1
       /\ last'.op = "cleanup"
             => \A p \in DOMAIN pinCallbacks :
                   \A fn \in ClearFnsOn(p) : Runs(last'.calls, fn, p) = 1]_vars

C13_Witness ==
    /\ last.op = "clear_pin" /\ last.err = "RuntimeError"
    /\ Runs(last.calls, "clr2", last.pin) = 1
    /\ last.raised = {"clr2"}
    /\ pinCallbacks[last.pin] = {}

(* C14 as claimed: cleanup() ends without error, also when an on_clear
   raises and when PWM channels exist; afterwards no pin has a mode, the
   output cache and the callback registry are empty, and the PWM table is
   empty with every channel it held stopped. *)
C14_CleanupCompletes ==
    [][last'.op = "cleanup"
       => /\ last'.err = "none"
          /\ \A p \in PinUniverse : pinModes'[p] = None /\ outputPinStates'[p] = None
          /\ \A p \in DOMAIN pinCallbacks' : pinCallbacks'[p] = {}
          /\ pwmPins' = <<>>
          /\ PwmPinsOf(pwmPins) \subseteq last'.stopped]_vars

(* The state a cleanup() leaves behind, whatever its outcome. *)
AfterCleanup ==
    /\ DOMAIN pinCallbacks = {}
    /\ DOMAIN gpioPins = {}
    /\ ~validPins.cached
    /\ \A p \in PinUniverse : pinModes[p] = None /\ outputPinStates[p] = None

(* C15 as claimed: a cleanup() called in the state a cleanup() has left
   raises no error, invokes no callback and changes nothing. *)
C15_SecondCleanupNoOp ==
    [][(AfterCleanup /\ last'.op = "cleanup")
       => /\ last'.err = "none"
          /\ last'.calls = <<>>
          /\ UNCHANGED <<pinModes, outputPinStates, pinCallbacks, pwmPins,
                         validPins, gpioPins>>]_vars

(* C16 as claimed: once cleanup() has run (it alone empties the registry's
   keys), configure_pin(p, IN or OUT) on an unconfigured pin of the
   originally discovered set succeeds, with or without a callback, and
   leaves p in the requested mode with the callback registered. *)
C16_UsableAfterCleanup ==
    [][(/\ DOMAIN pinCallbacks = {}
        /\ last'.op = "configure_pin" /\ last'.pin \in MockPins
        /\ pinModes[last'.pin] = None
        /\ last'.arg \in {IN_MODE, OUT_MODE} /\ last'.faults = {})
       => /\ last'.err = "none"
          /\ pinModes'[last'.pin] = last'.arg
          /\ last'.cb # NoCallback
               => /\ last'.pin \in DOMAIN pinCallbacks'
                  /\ \E r \in pinCallbacks'[last'.pin] : r.on_change = last'.cb]_vars

(* C17: when get_valid_pins() has returned a list, that list is sorted, and
   a second call made right after it returns the same list without calling
   the driver's gpio_function. *)
C17_GetValidPinsIdempotent ==
    (last.op = "get_valid_pins" /\ last.err = "none")
    => LET again == HW_get_valid_pins(validPins, gpioPins) IN
       /\ again.err = "none"
       /\ again.pins = last.pins
       /\ again.scans = 0
       /\ \A i, j \in 1..Len(last.pins) : i < j => last.pins[i] < last.pins[j]

C17_Witness ==
    /\ last.op = "get_valid_pins" /\ last.err = "none"
    /\ last.scans > 0
    /\ last.pins # <<>>

(* C18 as claimed: whatever calls came before, get_valid_pins() returns the
   set it returned when the manager was initialized. *)
C18_ValidPinsImmutable ==
    last.op = "get_valid_pins"
    => /\ last.err = "none"
       /\ SeqToSet(last.pins) = MockPins

(* C19: when discovery finds no pin whose function is IN or OUT,
   get_valid_pins raises the no-valid-pins error and stores nothing, and the
   construction of the manager ends with that error and leaves the manager
   uninitialized, with no pin tables. *)
C19_NoValidPinsAbortsInit ==
    [][(/\ last'.op \in {"get_valid_pins", "GPIOManager"}
        /\ ~initialized /\ ~validPins.cached
        /\ gpio_function_pins(gpioPins) = {})
       => /\ last'.err = "RuntimeError"
          /\ last'.msg = "No valid pins found"
          /\ ~validPins'.cached
          /\ ~initialized'
          /\ DOMAIN pinCallbacks' = {}]_vars

C19_Witness ==
    /\ last.op = "GPIOManager" /\ last.err = "RuntimeError"
    /\ ~initialized /\ ~validPins.cached
    /\ last.scans = Cardinality(DiscoveryRange)
    /\ DOMAIN gpioPins # {}

(* C20: a direct setup_input_pin call with a legal pull-up/down whose driver
   setup does not fail raises ValueError when edge_detection is set without a
   callback and when a callback comes without edge_detection, and makes no
   add_event_detect call: the pin has no edge detection afterwards. *)
C20_PairingMismatchRejected ==
    [][(/\ last'.op = "setup_input_pin"
        /\ last'.arg \in {PUD_OFF, PUD_UP, PUD_DOWN}
        /\ "setup" \notin last'.faults
        /\ \/ last'.edge /\ last'.cb = NoCallback
           \/ ~last'.edge /\ last'.cb # NoCallback)
       => /\ last'.err = "ValueError"
          /\ last'.events = 0
          /\ last'.pin \in DOMAIN gpioPins' => gpioPins'[last'.pin].events = 0]_vars

C20_Witness ==
    /\ last.op = "setup_input_pin" /\ last.err = "ValueError"
    /\ ~last.edge /\ last.cb = "cb1"
    /\ last.setups = 1
    /\ gpioPins[last.pin].events = 0

-----------------------------------------------------------------------------
(* C21: setup_pwm(pin, frequency) succeeds only for a valid pin that is in
   Output mode; for an invalid, unconfigured or Input pin it fails with an
   error, the adapter's PWM constructor is not called and the PWM table is
   left as it was. *)
C21_SetupPwmOnlyOnOutput ==
    [][last'.op = "setup_pwm"
       => /\ last'.err = "none"
               => last'.pin \in ValidNow /\ pinModes[last'.pin] = OUT_MODE
          /\ ~(last'.pin \in ValidNow /\ pinModes[last'.pin] = OUT_MODE)
               => /\ last'.err # "none"
                  /\ last'.pwms = 0
                  /\ pwmPins' = pwmPins]_vars

(* setup_pwm was refused on an Input pin while another pin holds a channel. *)
C21_Witness ==
    /\ last.op = "setup_pwm" /\ last.err = "ValueError"
    /\ last.msg = "not configured as output"
    /\ pinModes[last.pin] = IN_MODE
    /\ last.pwms = 0
    /\ pwmPins # <<>>

(* C22: set_pwm_duty_cycle(pin, d) with d < 0 or d > 100 fails with
   ValueError and leaves the recorded duty cycle and the driver PWM's duty
   cycle as they were; with 0 <= d <= 100 on an existing channel both
   become d. *)
C22_DutyCycleRange ==
    [][last'.op = "set_pwm_duty_cycle"
       => /\ (last'.arg < 0 \/ last'.arg > 100)
               => last'.err = "ValueError" /\ pwmPins' = pwmPins
          /\ (0 <= last'.arg /\ last'.arg <= 100 /\ last'.pin \in PwmPinsOf(pwmPins))
               => /\ last'.err = "none"
                  /\ LET k == PwmIndex(pwmPins', last'.pin) IN
                     /\ pwmPins'[k].duty_cycle = last'.arg
                     /\ pwmPins'[k].pwm.dutycycle = last'.arg]_vars

(* A duty cycle of 101 was refused on a channel that was set to 100 before. *)
C22_Witness ==
    /\ last.op = "set_pwm_duty_cycle" /\ last.err = "ValueError" /\ last.arg = 101
    /\ last.pin \in PwmPinsOf(pwmPins)
    /\ pwmPins[PwmIndex(pwmPins, last.pin)].duty_cycle = 100
    /\ pwmPins[PwmIndex(pwmPins, last.pin)].pwm.dutycycle = 100

(* The pin that shares a PWM generator with a hardware-PWM pin, and the
   warning that names the pair. *)
Partner(pin) == CASE pin = 12 -> 13 [] pin = 13 -> 12 [] pin = 18 -> 19 [] pin = 19 -> 18

PairWarning(pin) == IF pin \in {12, 13} THEN "12/13" ELSE "18/19"

(* C23: setup_pwm(p, f) on a hardware-PWM pin whose partner already has a
   channel succeeds and logs the shared-generator warning of p's own pair,
   whatever channels the other hardware-PWM pins have. *)
C23_SharedGeneratorWarning ==
    [][(/\ last'.op = "setup_pwm"
        /\ last'.pin \in HardwarePwmPins
        /\ last'.pin \in ValidNow /\ pinModes[last'.pin] = OUT_MODE
        /\ Partner(last'.pin) \in PwmPinsOf(pwmPins))
       => /\ last'.err = "none"
          /\ PairWarning(last'.pin) \in last'.warn]_vars

(* C26: on an Input pin with registered callbacks every edge the driver
   reports (its read of the pin not failing in the driver) invokes each
   callback exactly once with (pin, state), state being the level the pin
   has at dispatch. *)
C26_EdgeDeliversOnce ==
    [][(/\ last'.op = "edge_event" /\ last'.faults = {}
        /\ pinModes[last'.pin] = IN_MODE
        /\ last'.pin \in DOMAIN pinCallbacks
        /\ pinCallbacks[last'.pin] # {})
       => /\ Len(last'.calls) = Cardinality(pinCallbacks[last'.pin])
          /\ \A reg \in pinCallbacks[last'.pin] :
               Count(last'.calls,
                     Call(reg.on_change, last'.pin,
                          IF gpioPins'[last'.pin].value # 0 THEN HIGH ELSE LOW)) = 1]_vars

(* One transition to HIGH reached both callbacks of an Input pin, once each,
   with (pin, HIGH). *)
C26_Witness ==
    /\ last.op = "edge_event" /\ last.err = "none" /\ last.arg = HIGH
    /\ pinModes[last.pin] = IN_MODE
    /\ Cardinality(pinCallbacks[last.pin]) = 2
    /\ Count(last.calls, Call("cb1", last.pin, HIGH)) = 1
    /\ Count(last.calls, Call("cb2", last.pin, HIGH)) = 1
    /\ Len(last.calls) = 2

(* What the driver holds for a pin: set up as an output. *)
DriverIsOutput(gp, pin) == pin \in DOMAIN gp /\ gp[pin].mode = OUT_MODE

(* What the driver holds for a pin: an input (set up, or never touched). *)
DriverIsInput(gp, pin) == pin \in DOMAIN gp /\ gp[pin].mode = IN_MODE

(* C28: when configure_pin, set_pin_state or clear_pin returns an error, the
   manager's record of the pin agrees with the driver: the pin is recorded as
   Output exactly if the driver has it set up as an output, a pin recorded as
   Input is an input in the driver, and the cached state of an Output pin is
   the driver's level. *)
C28_ErrorLeavesConsistent ==
    [][(last'.op \in {"configure_pin", "set_pin_state", "clear_pin"}
        /\ last'.err # "none")
       => /\ pinModes'[last'.pin] = OUT_MODE <=> DriverIsOutput(gpioPins', last'.pin)
          /\ pinModes'[last'.pin] = IN_MODE => DriverIsInput(gpioPins', last'.pin)
          /\ pinModes'[last'.pin] = OUT_MODE
               => outputPinStates'[last'.pin] = gpioPins'[last'.pin].value]_vars

-----------------------------------------------------------------------------
(* C25: the first message a streaming connection receives is the snapshot;
   no pin update reaches it before. *)
C25_SnapshotFirst ==
    \A w \in WsIds : sockets[w].first # "gpio_pin_update"

(* C29: no request blocks forever: whenever a request holds gpio_lock, the
   lock is free again later, also when the request's relay callback meets a
   failed send on the last connection. *)
C29_LockReleased == (gpio_lock # "free") ~> (gpio_lock = "free")

(* A state request has returned whose relay callback ran while the only
   connection left could no longer be sent to. *)
C29_Witness ==
    /\ last.op = "set_pin_state" /\ last.err = "none"
    /\ RelayCalls(last.calls) # <<>>
    /\ Len(active_connections) = 1
    /\ ~sockets[active_connections[1]].alive
    /\ gpio_lock = "free"

(* C24: when cleanup_ws leaves active_connections empty, no pin holds the
   relay callback any more, cleanup_ws has run to its end and the socket is
   closed. *)
C24_LastConnectionCleansUp ==
    [][(active_connections # <<>> /\ active_connections' = <<>>)
       => /\ \A p \in DOMAIN pinCallbacks' : RelayReg \notin pinCallbacks'[p]
          /\ \A w \in SeqToSet(active_connections) :
               sockets'[w].closed /\ sockets'[w].out = "closed"
          /\ gpio_lock' = "free"]_vars

(* The names the listing uses for a pin's mode. *)
ModeName(mode) ==
    IF mode = IN_MODE THEN "IN" ELSE IF mode = OUT_MODE THEN "OUT" ELSE "UNDEFINED"

(* C27: the pin listing has one entry per discovered pin, with mode IN, OUT
   or UNDEFINED as the pin is Input, Output or unconfigured, a configured
   flag that is true exactly for configured pins, and the state
   get_pin_state returns. *)
C27_ListingMatchesManager ==
    [][(last'.op = "get_gpio_pins" /\ last'.err = "none")
       => /\ Len(last'.listing) = Cardinality(ValidNow)
          /\ \A i \in 1..Len(last'.listing) :
               LET e == last'.listing[i] IN
               /\ e.number \in ValidNow
               /\ e.state = ReadNow(e.number, {}).ret
               /\ e.mode = ModeName(pinModes[e.number])
               /\ "configured" \in DOMAIN e
               /\ e.configured = (pinModes[e.number] # None)]_vars

-----------------------------------------------------------------------------
(* C30: once two set_pin_state calls on the same Output pin, made from
   different threads, have both returned, the cached state is the level last
   written to the driver and the state last delivered to each registered
   callback is the cached state. *)
C30_SetPinStateAtomic ==
    \A p \in RoutePins :
       (\A t \in ThreadIds : /\ threads[t].pc = "done" /\ threads[t].pin = p
                             /\ threads[t].err = "none")
       => /\ outputPinStates[p] = gpioPins[p].value
          /\ \A reg \in pinCallbacks[p] : delivered[reg.on_change] = outputPinStates[p]

-----------------------------------------------------------------------------
(* C34: configure_pin(p, IN, callback) asks the adapter for edge detection
   exactly when a callback is supplied: after a successful configure_pin as
   Input the driver has one edge detection on p if a callback was given and
   none if no callback was given. *)
C34_EdgeDetectionIffCallback ==
    [][(/\ Idle
        /\ last'.op = "configure_pin" /\ last'.err = "none"
        /\ last'.arg = IN_MODE)
       => gpioPins'[last'.pin].events =
             (IF last'.cb # NoCallback THEN 1 ELSE 0)]_vars

(* C37: every pin that has an entry in the PWM table is in Output mode. *)
C37_PwmOnlyOnOutputPins ==
    \A p \in PwmPinsOf(pwmPins) : pinModes[p] = OUT_MODE

(* C38: when the adapter's setup_input_pin fails with a ValueError (bad
   pull-up/down value or mismatched edge_detection/callback pairing), the
   driver's state of every pin is what it was before the call. *)
C38_FailedSetupChangesNothing ==
    [][(/\ Idle
        /\ last'.op = "setup_input_pin" /\ last'.err = "ValueError")
       => gpioPins' = gpioPins]_vars

(* C33: cleanup() fires the on_clear callbacks first, then stops and removes
   the PWM channels, and only then tears the adapter down: in the order of
   its steps no on_clear follows a PWM removal and no PWM removal follows
   the adapter teardown. *)
C33_CleanupOrder ==
    [][(Idle /\ last'.op = "cleanup")
       => \A i, j \in 1..Len(last'.steps) :
             /\ (last'.steps[i] = "on_clear" /\ last'.steps[j] = "remove_pwm") => i < j
             /\ (last'.steps[i] = "remove_pwm" /\ last'.steps[j] = "HW.cleanup")
                   => i < j]_vars

(* C35: the adapter sets the numbering mode once per process: a
   GPIOHardware() construction that follows the first one, with or without
   cleanup() calls in between, invokes no setmode and leaves the adapter's
   cached pin list as it was. *)
C35_SetmodeOnce ==
    [][(Idle /\ last'.op = "GPIOHardware")
       => (last'.setmodes = 0 /\ validPins' = validPins)]_vars

(* C36: in every state between two manager calls each pin has one mode
   (unconfigured, Input or Output), a cached output state exists for a pin
   exactly if its mode is Output, and a cached state is HIGH or LOW. *)
C36_CacheIffOutput ==
    \A p \in PinUniverse :
        /\ pinModes[p] \in {None, IN_MODE, OUT_MODE}
        /\ (outputPinStates[p] # None) <=> (pinModes[p] = OUT_MODE)
        /\ outputPinStates[p] \in {None, HIGH, LOW}

(* An Output pin whose state was set has just been cleared: its mode and its
   cached state are gone while the driver still has it as an output. *)
C36_Witness ==
    /\ last.op = "clear_pin" /\ last.pin \in DOMAIN gpioPins
    /\ gpioPins[last.pin].mode = OUT_MODE /\ gpioPins[last.pin].value = 0
    /\ pinModes[last.pin] = None /\ outputPinStates[last.pin] = None

(* The PWM channel of a pin in a table: its PWMInfo, if it has one. *)
PwmOf(tbl, pin) == SelectSeq(tbl, LAMBDA info : info.pin = pin)

(* The per-pin operations of the manager. *)
PinOps == {"configure_pin", "watch_pin", "set_pin_state", "clear_pin", "setup_pwm",
           "start_pwm", "stop_pwm", "remove_pwm", "set_pwm_duty_cycle"}

(* C39: a per-pin operation on pin p leaves the mode, the cached state, the
   callback set and the PWM channel of every other pin unchanged, and
   watch_pin leaves the mode and the cached state of p itself unchanged. *)
C39_OtherPinsUntouched ==
    [][(Idle /\ last'.op \in PinOps)
       => /\ \A q \in PinUniverse \ {last'.pin} :
                /\ pinModes'[q] = pinModes[q]
                /\ outputPinStates'[q] = outputPinStates[q]
                /\ (q \in DOMAIN pinCallbacks') = (q \in DOMAIN pinCallbacks)
                /\ q \in DOMAIN pinCallbacks => pinCallbacks'[q] = pinCallbacks[q]
                /\ PwmOf(pwmPins', q) = PwmOf(pwmPins, q)
          /\ last'.op = "watch_pin"
                => /\ pinModes'[last'.pin] = pinModes[last'.pin]
                   /\ outputPinStates'[last'.pin] = outputPinStates[last'.pin]]_vars

(* A pin has just been cleared while another pin is an Output with a
   changed state, a watcher and a running PWM channel. *)
C39_Witness ==
    /\ last.op = "clear_pin" /\ last.err = "RuntimeError" /\ last.hwErr = "TypeError"
    /\ \E q \in FramePins \ {last.pin} :
          /\ pinModes[q] = OUT_MODE /\ outputPinStates[q] = LOW
          /\ pinCallbacks[q] # {}
          /\ q \in PwmPinsOf(pwmPins) /\ PwmOf(pwmPins, q)[1].pwm.running

(* A configure request the route passes on to the manager: a valid pin and
   the mode IN or OUT. *)
WellFormed(r) == r.pin \in ValidNow /\ r.state \in {IN_MODE, OUT_MODE}

(* Thread t is inside the with block: it has acquired gpio_lock and not
   yet run the body that releases it. *)
InsideWith(t) == threads[t].pc = "locked" /\ gpio_lock = "configure_gpio"

(* C32: concurrent configure requests are serialised by gpio_lock: at most
   one request thread is inside the with block at any time, a well-formed
   request is answered with status 200 or 500, and each request acts on the
   pin as in a sequential run: it is answered 200 exactly if the pin was
   unconfigured, and then the pin has the requested mode, and otherwise the
   pin's mode stays what the earlier request made it. *)
C32_ConfigureSerialised ==
    /\ [](Cardinality({t \in ThreadIds : InsideWith(t)}) <= 1)
    /\ [](\A t \in ThreadIds :
             (threads[t].pc = "done" /\ WellFormed(threads[t]))
                => threads[t].err \in {"200", "500"})
    /\ [][(Idle /\ last'.op = "configure_pin")
          => IF pinModes[last'.pin] = None
             THEN Status(last') = "200" /\ pinModes'[last'.pin] = last'.arg
             ELSE Status(last') = "500" /\ pinModes' = pinModes]_vars

(* A request has just run its body and configured the pin while another
   request for the same pin waits for the lock. *)
C32_Witness ==
    \E t, u \in ThreadIds :
        /\ t # u
        /\ threads[t].pc = "locked" /\ threads[u].pc = "wait"
        /\ threads[t].pin = threads[u].pin /\ WellFormed(threads[t])
        /\ WellFormed(threads[u])
        /\ last.op = "configure_pin" /\ last.err = "none"
        /\ pinModes[last.pin] = last.arg

(* C31: every dispatch of an edge that iterates pin p's callback set (the
   registry has an entry for p when the dispatch starts) completes without
   error and has invoked each callback that was registered for p during the
   whole dispatch, whatever watch_pin, clear_pin or cleanup calls another
   thread makes meanwhile. *)
C31_DispatchCompletes ==
    (~iter.active /\ iter.pin # None /\ iter.err # "KeyError")
        => (iter.err = "none" /\ iter.stable \subseteq iter.visited)

(* A motor run is in progress in thread t: turn_on has started the first
   motor and turn_off has not been called. *)
RunInProgress(t) == threads[t].pc \in {"turn_on2", "sleep"}

(* C40: motor runs do not overlap: no thread executes turn_on while a run
   of another thread is in progress, and only a callback for the start gate
   is ever at turn_on or inside a run. *)
C40_RunsDoNotOverlap ==
    /\ [][\A t \in ThreadIds :
             (threads[t].pc = "turn_on" /\ threads'[t].pc # "turn_on")
                => \A u \in ThreadIds \ {t} : ~RunInProgress(u)]_vars
    /\ [](\A t \in ThreadIds :
             threads[t].pc \in {"turn_on", "turn_on2", "sleep"}
                => threads[t].pin = OPTICAL_GATE_1_PIN)

====
